---- MODULE Spec2Model ----
(***************************************************************************)
(* Model of the two simulators of ProjectSO2-simulators:                   *)
(*   - ElectionSimulator  (src/unnamed/part_001): simularBully,            *)
(*     simularRingCompleto and the playback controller of the election     *)
(*     page;                                                               *)
(*   - ClockSyncSimulator (src/src/pages/ClockSyncSimulator.tsx):          *)
(*     simularCristian, simularBerkeley and the playback controller of     *)
(*     the clock page.                                                     *)
(*                                                                         *)
(* Conventions.  An optional field of a TypeScript object is a sequence    *)
(* of length 0 (absent / undefined / null) or 1 (present).  A description  *)
(* string is the tuple of its template name and the values interpolated    *)
(* into it.  One action of the model is one browser event (click, timer)   *)
(* together with the React commit it causes: the re-render, the            *)
(* re-evaluation of useCallback and the cleanup/rerun of the effects.      *)
(***************************************************************************)
EXTENDS Integers, Sequences, FiniteSets, TLC

\* ------------------------------------------------------------------------
\* Bounds of the model (not program constants)
\* ------------------------------------------------------------------------
\* node ids are drawn from MinId..MaxId (the program draws from 10..99)
MaxId == 12
\* largest node count explored (the program accepts up to LimNodos)
MaxNodos == 3
\* logs holds min(number of lines, MaxLogs)
MaxLogs == 2
\* initial clock offsets are drawn from -MaxOffset..MaxOffset-1 (the program
\* draws from -3000..2999); applied offsets of earlier runs from
\* -MaxOffset..MaxOffset
MaxOffset == 2
\* largest number of client clocks explored (the program accepts up to 12)
MaxRelojes == 3
\* sampled one-way delays are explored up to MaxRetardo ms
MaxRetardo == 6
\* clock ticks explored after a generation
MaxTicks == 1
\* sequences compiled by handleSincronizar on one set of clocks
MaxCorridas == 1
\* the same, in the specification of repeated Berkeley runs
MaxCorridasSeguidas == 2
\* phases of the 1000 ms interval at which a run is started: multiples of
\* TickMs / MaxFases
MaxFases == 4
\* initial offset, in ms, of the client clocks in the specification of
\* repeated Cristian runs: further from the true time than half a
\* round-trip time (the program draws offsets from -3000..2999 and delays
\* below 200 ms by default)
OffsetLejano == 10
\* node count of the arrays on which the message structure of the election
\* compilers is checked; their ids are MinId..(MinId + MaxNodosMensajes - 1)
MaxNodosMensajes == 5

\* ------------------------------------------------------------------------
\* Program constants
\* ------------------------------------------------------------------------
MinId == 10
LimId == 99
MinNodos == 3
LimNodos == 15
DefNodos == 5
BaseMs == 900
MinRelojes == 2
LimRelojes == 12
DefRelojes == 4
MinLatencia == 10
LimLatencia == 1000
DefLatencia == 100
IniLatencia == 200
MinRetardo == 5
TickMs == 1000
RBaseMs == 900
\* Date.now() at generation
Ahora == 5000

None == <<>>
Some(v) == <<v>>

VARIABLES
  \* ElectionSimulator: useState hooks
  numNodos, algoritmoActivo, nodos, leaderId, modoIniciador, nodoIniciador,
  acciones, pasoIndex, isPlaying, mensajeActual, speed, logs,
  \* ElectionSimulator: the acciones array captured by the memoized
  \* avanzarPaso (useCallback with deps [acciones.length])
  avanzarPasoAcciones,
  \* ElectionSimulator: pending setTimeout handles of the auto-play effect
  timers,
  \* history: the actions applied by avanzarPaso since the last setAcciones
  hAplicadas,
  \* history: the run being played, [alg, iniciador, etapa, trasFallo]
  hCorrida,
  \* ClockSyncSimulator: useState hooks (numNodos, algoritmoActivo,
  \* latenciaMax, nodos, acciones, pasoIndex, isPlaying, mensajeActual,
  \* speed, logs of that component)
  rNumNodos, rAlgoritmoActivo, latenciaMax, rNodos, rAcciones, rPasoIndex,
  rIsPlaying, rMensajeActual, rSpeed, rLogs,
  \* ClockSyncSimulator: pending setTimeout handles of the auto-play effect
  rTimers,
  \* history: the actions applied by avanzarPaso since the last setAcciones
  hRAplicadas,
  \* history: the number of sequences handleSincronizar compiled since the
  \* clocks were generated
  hRCorridas,
  \* ClockSyncSimulator: milliseconds until the setInterval of the clock
  \* effect fires next; only the timed specification lets it vary
  rHastaTick,
  \* BrowserRouter: the route whose page is mounted
  ruta

eVars == <<numNodos, algoritmoActivo, nodos, leaderId, modoIniciador,
           nodoIniciador, acciones, pasoIndex, isPlaying, mensajeActual,
           speed, logs, avanzarPasoAcciones, timers, hAplicadas, hCorrida>>

rVars == <<rNumNodos, rAlgoritmoActivo, latenciaMax, rNodos, rAcciones,
           rPasoIndex, rIsPlaying, rMensajeActual, rSpeed, rLogs, rTimers,
           hRAplicadas, hRCorridas, rHastaTick>>

vars == <<ruta, eVars, rVars>>

\* ------------------------------------------------------------------------
\* Helpers over sequences
\* ------------------------------------------------------------------------
Range(s) == {s[i] : i \in DOMAIN s}

Ids(ns) == [i \in DOMAIN ns |-> ns[i].id]

\* Array.prototype.findIndex + 1 (0 when no element has the id)
IndexOfIdMut(ns, id) ==
  IF \E i \in DOMAIN ns : ns[i].id = id
  THEN CHOOSE i \in DOMAIN ns : ns[i].id = id /\ \A j \in 1..(i-1) : ns[j].id # id
  ELSE Len(ns)
IndexOfId(ns, id) ==
  IF \E i \in DOMAIN ns : ns[i].id = id
  THEN CHOOSE i \in DOMAIN ns : ns[i].id = id /\ \A j \in 1..(i-1) : ns[j].id # id
  ELSE 0

\* nodos.filter((n) => !n.failed)
VivosMut(ns) == ns
Vivos(ns) == SelectSeq(ns, LAMBDA n : ~n.failed)

\* ------------------------------------------------------------------------
\* simularBully
\* ------------------------------------------------------------------------
\* vivos.filter((n) => n.id > iniciador.id)
SuperioresMut(vivos, iniciador) == SelectSeq(vivos, LAMBDA n : n.id >= iniciador.id)
Superiores(vivos, iniciador) == SelectSeq(vivos, LAMBDA n : n.id > iniciador.id)

\* the reducer (max, n) => (n.id > max.id ? n : max)
MayorPorIdMut(max, n) == IF n.id < max.id THEN n ELSE max
MayorPorId(max, n) == IF n.id > max.id THEN n ELSE max

\* vivos.reduce(MayorPorId, iniciador)
RECURSIVE ReduceMayor(_, _, _)
ReduceMayor(vivos, i, max) ==
  IF i > Len(vivos) THEN max
  ELSE ReduceMayor(vivos, i + 1, MayorPorId(max, vivos[i]))

SimAction(desc, hl, lider, msj) ==
  [descripcion |-> desc, highlightIds |-> hl, leaderId |-> lider, mensaje |-> msj]

\* the two actions pushed per superior by the for loop
RECURSIVE BullyMensajesMut(_, _, _)
BullyMensajesMut(iniciador, superiores, i) ==
  IF i > Len(superiores) THEN <<>>
  ELSE LET s == superiores[i] IN
       << SimAction(<<"bully_responde_ok", s.id, iniciador.id>>,
                      Some(<<s.id, iniciador.id>>), None,
                      Some([fromId |-> s.id, toId |-> iniciador.id,
                            tipo |-> "ok", payload |-> None])),
          SimAction(<<"bully_envia_eleccion", iniciador.id, s.id>>,
                      Some(<<iniciador.id, s.id>>), None,
                      Some([fromId |-> iniciador.id, toId |-> s.id,
                            tipo |-> "election", payload |-> None])) >>
       \o BullyMensajesMut(iniciador, superiores, i + 1)
RECURSIVE BullyMensajes(_, _, _)
BullyMensajes(iniciador, superiores, i) ==
  IF i > Len(superiores) THEN <<>>
  ELSE LET s == superiores[i] IN
       << SimAction(<<"bully_envia_eleccion", iniciador.id, s.id>>,
                      Some(<<iniciador.id, s.id>>), None,
                      Some([fromId |-> iniciador.id, toId |-> s.id,
                            tipo |-> "election", payload |-> None])),
          SimAction(<<"bully_responde_ok", s.id, iniciador.id>>,
                      Some(<<s.id, iniciador.id>>), None,
                      Some([fromId |-> s.id, toId |-> iniciador.id,
                            tipo |-> "ok", payload |-> None])) >>
       \o BullyMensajes(iniciador, superiores, i + 1)

simularBully(ns, iniciadorId) ==
  LET vivos == Vivos(ns)
      idx == IndexOfId(vivos, iniciadorId)
  IN IF idx = 0
     THEN << SimAction(<<"iniciador_caido", iniciadorId>>, None, None, None) >>
     ELSE LET iniciador == vivos[idx]
              superiores == Superiores(vivos, iniciador)
              nuevoLider == ReduceMayor(vivos, 1, iniciador)
              inicio == SimAction(<<"bully_inicia", iniciador.id>>,
                                    Some(<<iniciador.id>>), None, None)
          IN IF Len(superiores) = 0
             THEN << inicio,
                     SimAction(<<"bully_sin_superiores", iniciador.id>>,
                                 Some(<<iniciador.id>>), Some(iniciador.id), None) >>
             ELSE <<inicio>>
                  \o BullyMensajes(iniciador, superiores, 1)
                  \o << SimAction(<<"bully_nuevo_lider", nuevoLider.id>>,
                                    Some(<<nuevoLider.id>>), Some(nuevoLider.id), None) >>

\* ------------------------------------------------------------------------
\* simularRingCompleto
\* ------------------------------------------------------------------------
\* Math.max(...ids) over a non-empty list
MathMaxMut(ids) == ids[Len(ids)]
MathMax(ids) == CHOOSE m \in Range(ids) : \A x \in Range(ids) : x <= m

\* [...vivos.slice(idxInicio), ...vivos.slice(0, idxInicio)], idx being 1-based here
Rotar(vivos, idx) == SubSeq(vivos, idx, Len(vivos)) \o SubSeq(vivos, 1, idx - 1)

\* if (!idsEnMensaje.includes(to.id)) idsEnMensaje.push(to.id)
AgregarIdMut(ids, id) == Append(ids, id)
AgregarId(ids, id) == IF id \in Range(ids) THEN ids ELSE Append(ids, id)

\* receiver of the i-th message (i = 1..n) of a circulation whose first
\* sender is anillo[desde] (1-based): anillo[(desde0 + i) % n]
ReceptorMut(anillo, desde, i) == anillo[((desde - 1 + i - 1) % Len(anillo)) + 1]
Receptor(anillo, desde, i) == anillo[((desde - 1 + i) % Len(anillo)) + 1]

\* sender of the i-th message: anillo[(desde0 + i - 1) % n]
EmisorMut(anillo, desde, i) == anillo[((desde - 1 + i) % Len(anillo)) + 1]
Emisor(anillo, desde, i) == anillo[((desde - 1 + i - 1) % Len(anillo)) + 1]

\* upper limit of both loops: i <= anillo.length
VueltasMut(anillo) == Len(anillo) - 1
Vueltas(anillo) == Len(anillo)

\* Phase 1 loop: for (i = 1; i <= anillo.length; i++).  Returns the actions
\* pushed and the final idsEnMensaje.
RECURSIVE RingFase1(_, _, _, _)
RingFase1(anillo, i, ids, acc) ==
  IF i > Vueltas(anillo) THEN [acciones |-> acc, idsEnMensaje |-> ids]
  ELSE LET from == Emisor(anillo, 1, i)
           to == Receptor(anillo, 1, i)
       IN RingFase1(anillo, i + 1, AgregarId(ids, to.id),
            Append(acc,
              SimAction(<<"ring_eleccion_pasa", from.id, to.id, ids>>,
                        Some(<<from.id, to.id>>), None,
                        Some([fromId |-> from.id, toId |-> to.id,
                              tipo |-> "ring1", payload |-> Some(ids)]))))

\* Phase 2 loop: for (i = 1; i <= anillo.length; i++)
RECURSIVE RingFase2(_, _, _, _)
RingFase2(anillo, idxLider, idLeader, i) ==
  IF i > Vueltas(anillo) THEN <<>>
  ELSE LET from == Emisor(anillo, idxLider, i)
           to == Receptor(anillo, idxLider, i)
       IN << SimAction(<<"ring_anuncio_pasa", idLeader, from.id, to.id>>,
                       Some(<<from.id, to.id>>), None,
                       Some([fromId |-> from.id, toId |-> to.id,
                             tipo |-> "ring2", payload |-> None])) >>
          \o RingFase2(anillo, idxLider, idLeader, i + 1)

simularRingCompleto(ns, iniciadorId) ==
  LET vivos == Vivos(ns)
      idxInicio == IndexOfId(vivos, iniciadorId)
  IN IF Len(vivos) = 0
     THEN << SimAction(<<"ring_sin_activos">>, None, None, None) >>
     ELSE IF idxInicio = 0
     THEN << SimAction(<<"iniciador_caido", iniciadorId>>, None, None, None) >>
     ELSE LET iniciador == vivos[idxInicio]
              anillo == Rotar(vivos, idxInicio)
              fase1 == RingFase1(anillo, 1, <<iniciador.id>>, <<>>)
              idsEnMensaje == fase1.idsEnMensaje
              idLeader == MathMax(idsEnMensaje)
              \* anillo.find((n) => n.id === idLeader) ?? iniciador
              idxLider == IF IndexOfId(anillo, idLeader) = 0 THEN 1
                          ELSE IndexOfId(anillo, idLeader)
              nodoLider == anillo[idxLider]
          IN << SimAction(<<"ring_inicia", iniciador.id, <<iniciador.id>> >>,
                          Some(<<iniciador.id>>), None, None) >>
             \o fase1.acciones
             \o << SimAction(<<"ring_regresa", iniciador.id, idsEnMensaje, idLeader>>,
                             Some(<<iniciador.id, idLeader>>), None, None),
                   SimAction(<<"ring_inicia_anuncio", nodoLider.id>>,
                             Some(<<nodoLider.id>>), None, None) >>
             \o RingFase2(anillo, idxLider, idLeader, 1)
             \o << SimAction(<<"ring_todos_actualizan", idLeader>>,
                             Some(Ids(anillo)), Some(idLeader), None) >>

\* ------------------------------------------------------------------------
\* generarNodos
\* ------------------------------------------------------------------------
NodoSim(id, failed, highlighted) ==
  [id |-> id, failed |-> failed, highlighted |-> highlighted]

\* Math.floor(Math.random() * 90) + 10, within the model's bound
IdPool == MinId..MaxId

\* the insertion orders of a Set filled until ids.size = cantidad
SecuenciasDeIdsMut(cantidad) == [1..cantidad -> IdPool]
SecuenciasDeIds(cantidad) ==
  {s \in [1..cantidad -> IdPool] : \A i, j \in 1..cantidad : i # j => s[i] # s[j]}

\* the arrays generarNodos(cantidad) can return
generarNodos(cantidad) ==
  {[i \in 1..cantidad |-> NodoSim(s[i], FALSE, FALSE)] : s \in SecuenciasDeIds(cantidad)}

\* ------------------------------------------------------------------------
\* ElectionSimulator: state after construction
\* ------------------------------------------------------------------------
Speeds == {<<1, 2>>, <<1, 1>>, <<2, 1>>}   \* 0.5, 1, 2 as <<numerator, denominator>>
Algorithms == {"bully", "ring"}

\* etapa: "intacta" while no node was toggled since the run was compiled,
\* "lider_caido" when the only toggle since then marked the leader of the
\* finished run as failed, "alterada" otherwise; trasFallo: the run was
\* compiled in etapa "lider_caido" of a Bully run, with the same initiator
SinCorrida == [alg |-> "ninguno", iniciador |-> None, etapa |-> "alterada", trasFallo |-> FALSE]

InitEleccion ==
  /\ numNodos = DefNodos
  /\ algoritmoActivo = "bully"
  /\ nodos = <<>>
  /\ leaderId = None
  /\ modoIniciador = FALSE
  /\ nodoIniciador = None
  /\ acciones = <<>>
  /\ pasoIndex = 0
  /\ isPlaying = FALSE
  /\ mensajeActual = None
  /\ speed = <<1, 1>>
  /\ logs = 0
  /\ avanzarPasoAcciones = <<>>
  /\ timers = {}
  /\ hAplicadas = <<>>
  /\ hCorrida = SinCorrida

\* ------------------------------------------------------------------------
\* ElectionSimulator: pieces shared by the handlers
\* ------------------------------------------------------------------------
Min(a, b) == IF a < b THEN a ELSE b

\* pushLog called k times
PushLog(l, k) == Min(l + k, MaxLogs)

\* baseMs / (speed || 1)
Delay(s) == (BaseMs * s[2]) \div s[1]

\* prev.map((n) => ({...n, highlighted: ids.includes(n.id)}))
ResaltarMut(ns, ids) ==
  [i \in DOMAIN ns |-> [ns[i] EXCEPT !.highlighted = @ \/ (ns[i].id \in Range(ids))]]
Resaltar(ns, ids) ==
  [i \in DOMAIN ns |-> [ns[i] EXCEPT !.highlighted = (ns[i].id \in Range(ids))]]

\* the dependency list of the auto-play effect that can change between two
\* renders: [isPlaying, pasoIndex, avanzarPaso, acciones.length, speed];
\* avanzarPaso changes identity exactly when acciones.length does
DepsPlayMut(playing, idx, accs, s) == <<playing, 0, Len(accs), s>>
DepsPlay(playing, idx, accs, s) == <<playing, idx, Len(accs), s>>

\* the closure useCallback returns at the next render
MemoAvanzarPasoMut(memo, accsAntes, accsDespues) == accsDespues
MemoAvanzarPaso(memo, accsAntes, accsDespues) ==
  IF Len(accsDespues) # Len(accsAntes) THEN accsDespues ELSE memo

\* the timers left after the commit: when a dependency changed the cleanup
\* clears the pending timeout and the effect arms a new one if playing and
\* not finished; otherwise the pending ones stay
EfectoPlayMut(pendientes, depsAntes, depsDespues) ==
  IF depsAntes = depsDespues THEN pendientes
  ELSE IF depsDespues[1]
       THEN {[delay |-> Delay(depsDespues[4])]}
       ELSE {}
EfectoPlay(pendientes, depsAntes, depsDespues) ==
  IF depsAntes = depsDespues THEN pendientes
  ELSE IF depsDespues[1] /\ depsDespues[2] < depsDespues[3]
       THEN {[delay |-> Delay(depsDespues[4])]}
       ELSE {}

\* The React commit that follows an event: pendientes are the timeouts still
\* pending after the event itself.
CommitMut(pendientes) ==
  /\ UNCHANGED <<ruta, rVars>>
  /\ avanzarPasoAcciones' = MemoAvanzarPaso(avanzarPasoAcciones, acciones, acciones')
  /\ timers' = pendientes \cup
                EfectoPlay(pendientes,
                           DepsPlay(isPlaying, pasoIndex, acciones, speed),
                           DepsPlay(isPlaying', pasoIndex', acciones', speed'))
Commit(pendientes) ==
  /\ UNCHANGED <<ruta, rVars>>
  /\ avanzarPasoAcciones' = MemoAvanzarPaso(avanzarPasoAcciones, acciones, acciones')
  /\ timers' = EfectoPlay(pendientes,
                          DepsPlay(isPlaying, pasoIndex, acciones, speed),
                          DepsPlay(isPlaying', pasoIndex', acciones', speed'))

\* avanzarPaso(): the updater passed to setPasoIndex, run on the current
\* index with the acciones of the memoized closure
AvanzarPasoMut ==
  IF pasoIndex >= Len(avanzarPasoAcciones)
  THEN /\ isPlaying' = FALSE
       /\ pasoIndex' = 0
       /\ UNCHANGED <<leaderId, mensajeActual, nodos, logs, hAplicadas>>
  ELSE LET acc == avanzarPasoAcciones[pasoIndex + 1] IN
       /\ logs' = PushLog(logs, 1)
       /\ leaderId' = IF acc.leaderId # None THEN acc.leaderId ELSE leaderId
       /\ mensajeActual' = acc.mensaje
       /\ nodos' = IF acc.highlightIds # None /\ Len(acc.highlightIds[1]) > 0
                   THEN Resaltar(nodos, acc.highlightIds[1])
                   ELSE Resaltar(nodos, <<>>)
       /\ pasoIndex' = pasoIndex + 1
       /\ hAplicadas' = Append(hAplicadas, acc)
       /\ UNCHANGED isPlaying

AvanzarPaso ==
  IF pasoIndex >= Len(avanzarPasoAcciones)
  THEN /\ isPlaying' = FALSE
       /\ UNCHANGED <<pasoIndex, leaderId, mensajeActual, nodos, logs, hAplicadas>>
  ELSE LET acc == avanzarPasoAcciones[pasoIndex + 1] IN
       /\ logs' = PushLog(logs, 1)
       /\ leaderId' = IF acc.leaderId # None THEN acc.leaderId ELSE leaderId
       /\ mensajeActual' = acc.mensaje
       /\ nodos' = IF acc.highlightIds # None /\ Len(acc.highlightIds[1]) > 0
                   THEN Resaltar(nodos, acc.highlightIds[1])
                   ELSE Resaltar(nodos, <<>>)
       /\ pasoIndex' = pasoIndex + 1
       /\ hAplicadas' = Append(hAplicadas, acc)
       /\ UNCHANGED isPlaying

\* ------------------------------------------------------------------------
\* ElectionSimulator: handlers.  Each action is the handler followed by the
\* commit of the render it schedules.
\* ------------------------------------------------------------------------
\* values typed into the "Nodos" field (the onChange accepts 0..99)
CamposNumNodos == (MinNodos - 1)..MaxNodos

\* onChange of the "Nodos" input
CambiarNumNodos(v) ==
  /\ numNodos' = v
  /\ UNCHANGED <<algoritmoActivo, nodos, leaderId, modoIniciador, nodoIniciador,
                 acciones, pasoIndex, isPlaying, mensajeActual, speed, logs,
                 hAplicadas, hCorrida>>
  /\ Commit(timers)

\* onChange of the "Algoritmo" select: setAlgoritmoActivo
CambiarAlgoritmo(a) ==
  /\ algoritmoActivo' = a
  /\ UNCHANGED <<numNodos, nodos, leaderId, modoIniciador, nodoIniciador,
                 acciones, pasoIndex, isPlaying, mensajeActual, speed, logs,
                 hAplicadas, hCorrida>>
  /\ Commit(timers)

\* onClick of the speed buttons: setSpeed
CambiarSpeed(v) ==
  /\ speed' = v
  /\ UNCHANGED <<numNodos, algoritmoActivo, nodos, leaderId, modoIniciador,
                 nodoIniciador, acciones, pasoIndex, isPlaying, mensajeActual,
                 logs, hAplicadas, hCorrida>>
  /\ Commit(timers)

handleGenerarNodosMut ==
  /\ numNodos < MinNodos \/ numNodos > LimNodos \/ numNodos <= MaxNodos
  /\ IF numNodos < MinNodos \/ numNodos > LimNodos
     THEN /\ numNodos' = DefNodos
          /\ isPlaying' = FALSE
          /\ UNCHANGED <<nodos, leaderId, modoIniciador, nodoIniciador, acciones,
                         pasoIndex, mensajeActual, logs, hAplicadas, hCorrida>>
     ELSE /\ nodos' \in generarNodos(numNodos)
          /\ leaderId' = None
          /\ nodoIniciador' = None
          /\ modoIniciador' = FALSE
          /\ acciones' = <<>>
          /\ pasoIndex' = 0
          /\ isPlaying' = FALSE
          /\ mensajeActual' = None
          /\ logs' = Min(2, MaxLogs)
          /\ hAplicadas' = <<>>
          /\ hCorrida' = SinCorrida
          /\ UNCHANGED numNodos
  /\ UNCHANGED <<algoritmoActivo, speed>>
  /\ Commit(timers)

handleGenerarNodos ==
  /\ numNodos < MinNodos \/ numNodos > LimNodos \/ numNodos <= MaxNodos
  /\ IF numNodos < MinNodos \/ numNodos > LimNodos
     THEN /\ numNodos' = DefNodos
          /\ UNCHANGED <<nodos, leaderId, modoIniciador, nodoIniciador, acciones,
                         pasoIndex, isPlaying, mensajeActual, logs, hAplicadas,
                         hCorrida>>
     ELSE /\ nodos' \in generarNodos(numNodos)
          /\ leaderId' = None
          /\ nodoIniciador' = None
          /\ modoIniciador' = FALSE
          /\ acciones' = <<>>
          /\ pasoIndex' = 0
          /\ isPlaying' = FALSE
          /\ mensajeActual' = None
          /\ logs' = Min(2, MaxLogs)
          /\ hAplicadas' = <<>>
          /\ hCorrida' = SinCorrida
          /\ UNCHANGED numNodos
  /\ UNCHANGED <<algoritmoActivo, speed>>
  /\ Commit(timers)

\* onClick of the reset button
ReiniciarMut ==
  /\ nodos' = <<>>
  /\ leaderId' = None
  /\ nodoIniciador' = None
  /\ acciones' = <<>>
  /\ isPlaying' = FALSE
  /\ mensajeActual' = None
  /\ logs' = Min(2, MaxLogs)
  /\ hAplicadas' = <<>>
  /\ hCorrida' = SinCorrida
  /\ UNCHANGED <<numNodos, algoritmoActivo, modoIniciador, speed, pasoIndex>>
  /\ Commit(timers)
Reiniciar ==
  /\ nodos' = <<>>
  /\ leaderId' = None
  /\ nodoIniciador' = None
  /\ acciones' = <<>>
  /\ pasoIndex' = 0
  /\ isPlaying' = FALSE
  /\ mensajeActual' = None
  /\ logs' = Min(2, MaxLogs)
  /\ hAplicadas' = <<>>
  /\ hCorrida' = SinCorrida
  /\ UNCHANGED <<numNodos, algoritmoActivo, modoIniciador, speed>>
  /\ Commit(timers)

\* onClick of "Seleccionar Iniciador": setModoIniciador(true)
ActivarModoIniciador ==
  /\ modoIniciador' = TRUE
  /\ UNCHANGED <<numNodos, algoritmoActivo, nodos, leaderId, nodoIniciador,
                 acciones, pasoIndex, isPlaying, mensajeActual, speed, logs,
                 hAplicadas, hCorrida>>
  /\ Commit(timers)

toggleFallarNodo(id) ==
  LET estabaFallado == nodos[IndexOfId(nodos, id)].failed IN
  /\ nodos' = [i \in DOMAIN nodos |->
                 IF nodos[i].id = id
                 THEN [nodos[i] EXCEPT !.failed = ~nodos[i].failed, !.highlighted = FALSE]
                 ELSE nodos[i]]
  /\ IF leaderId = Some(id) /\ ~estabaFallado
     THEN leaderId' = None /\ logs' = PushLog(logs, 2)
     ELSE leaderId' = leaderId /\ logs' = PushLog(logs, 1)
  /\ hCorrida' = [hCorrida EXCEPT !.etapa =
                    IF /\ hCorrida.etapa = "intacta"
                       /\ pasoIndex = Len(acciones)
                       /\ leaderId = Some(id)
                       /\ ~estabaFallado
                    THEN "lider_caido" ELSE "alterada"]
  /\ UNCHANGED <<numNodos, algoritmoActivo, modoIniciador, nodoIniciador,
                 acciones, pasoIndex, isPlaying, mensajeActual, speed, hAplicadas>>

seleccionarIniciador(id) ==
  IF nodos[IndexOfId(nodos, id)].failed
  THEN /\ logs' = PushLog(logs, 1)
       /\ UNCHANGED <<numNodos, algoritmoActivo, nodos, leaderId, modoIniciador,
                      nodoIniciador, acciones, pasoIndex, isPlaying, mensajeActual,
                      speed, hAplicadas, hCorrida>>
  ELSE /\ nodoIniciador' = Some(id)
       /\ nodos' = Resaltar(nodos, <<id>>)
       /\ modoIniciador' = FALSE
       /\ logs' = PushLog(logs, 1)
       /\ UNCHANGED <<numNodos, algoritmoActivo, leaderId, acciones, pasoIndex,
                      isPlaying, mensajeActual, speed, hAplicadas, hCorrida>>

\* onClick of a node of the canvas
ClickNodo(id) ==
  /\ id \in Range(Ids(nodos))
  /\ IF modoIniciador THEN seleccionarIniciador(id) ELSE toggleFallarNodo(id)
  /\ Commit(timers)

handleIniciarEleccion ==
  /\ IF nodoIniciador = None \/ Len(nodos) = 0
     THEN /\ logs' = PushLog(logs, 1)
          /\ UNCHANGED <<nodos, acciones, pasoIndex, mensajeActual, isPlaying,
                         hAplicadas, hCorrida>>
     ELSE /\ acciones' = IF algoritmoActivo = "bully"
                         THEN simularBully(nodos, nodoIniciador[1])
                         ELSE simularRingCompleto(nodos, nodoIniciador[1])
          /\ pasoIndex' = 0
          /\ mensajeActual' = None
          /\ nodos' = Resaltar(nodos, nodoIniciador)
          /\ logs' = PushLog(logs, 1)
          /\ isPlaying' = TRUE
          /\ hAplicadas' = <<>>
          /\ hCorrida' = [alg |-> algoritmoActivo, iniciador |-> nodoIniciador,
                          etapa |-> "intacta",
                          trasFallo |-> /\ hCorrida.etapa = "lider_caido"
                                        /\ hCorrida.alg = "bully"
                                        /\ algoritmoActivo = "bully"
                                        /\ hCorrida.iniciador = nodoIniciador]
  /\ UNCHANGED <<numNodos, algoritmoActivo, leaderId, modoIniciador, nodoIniciador, speed>>
  /\ Commit(timers)

handlePlay ==
  /\ IF Len(acciones) = 0
     THEN logs' = PushLog(logs, 1) /\ UNCHANGED isPlaying
     ELSE isPlaying' = TRUE /\ UNCHANGED logs
  /\ UNCHANGED <<numNodos, algoritmoActivo, nodos, leaderId, modoIniciador,
                 nodoIniciador, acciones, pasoIndex, mensajeActual, speed,
                 hAplicadas, hCorrida>>
  /\ Commit(timers)

handlePause ==
  /\ isPlaying' = FALSE
  /\ UNCHANGED <<numNodos, algoritmoActivo, nodos, leaderId, modoIniciador,
                 nodoIniciador, acciones, pasoIndex, mensajeActual, speed, logs,
                 hAplicadas, hCorrida>>
  /\ Commit(timers)

handlePaso ==
  /\ IF Len(acciones) = 0
     THEN /\ logs' = PushLog(logs, 1)
          /\ UNCHANGED <<pasoIndex, isPlaying, leaderId, mensajeActual, nodos, hAplicadas>>
     ELSE AvanzarPaso
  /\ UNCHANGED <<numNodos, algoritmoActivo, modoIniciador, nodoIniciador,
                 acciones, speed, hCorrida>>
  /\ Commit(timers)

handleClearLogs ==
  /\ logs' = 0
  /\ UNCHANGED <<numNodos, algoritmoActivo, nodos, leaderId, modoIniciador,
                 nodoIniciador, acciones, pasoIndex, isPlaying, mensajeActual,
                 speed, hAplicadas, hCorrida>>
  /\ Commit(timers)

\* a pending timeout of the auto-play effect expires: () => avanzarPaso()
TimerPlay ==
  \E t \in timers :
    /\ AvanzarPaso
    /\ UNCHANGED <<numNodos, algoritmoActivo, modoIniciador, nodoIniciador,
                   acciones, speed, hCorrida>>
    /\ Commit(timers \ {t})

\* ------------------------------------------------------------------------
\* ClockSyncSimulator: generarRelojes
\* ------------------------------------------------------------------------
ClockNode(id, horaLocal, offsetInicial, role) ==
  [id |-> id, horaLocal |-> horaLocal, offsetInicial |-> offsetInicial,
   offsetActual |-> 0, failed |-> FALSE, highlighted |-> FALSE,
   role |-> role, rtt |-> None]

\* Math.floor(Math.random() * 6000 - 3000), within the model's bound
OffsetsIniciales == (0 - MaxOffset)..(MaxOffset - 1)

\* the arrays generarRelojes(cantidad, algoritmo) can return at time now
generarRelojes(cantidad, algoritmo, now) ==
  {[i \in 1..(cantidad + 1) |->
      IF i = 1
      THEN ClockNode(0, now, 0, IF algoritmo = "cristian" THEN "server" ELSE "coordinator")
      ELSE ClockNode(i - 1, now + off[i - 1], off[i - 1], "client")] :
   off \in [1..cantidad -> OffsetsIniciales]}

\* ------------------------------------------------------------------------
\* ClockSyncSimulator: arithmetic and formatting
\* ------------------------------------------------------------------------
Max(a, b) == IF a > b THEN a ELSE b

\* Math.round(num / den) for den > 0: the nearest integer, halves towards
\* +Infinity
MathRoundMut(num, den) == num \div den
MathRound(num, den) == (2 * num + den) \div (2 * den)

\* new Date(t).toLocaleTimeString("es-MX", {hour12: false}): the time of day
\* to the second
HoraTexto(t) == (t \div 1000) % 86400

\* Math.max(5, Math.floor(Math.random() * latenciaMax)), within the model's
\* bound
Retardos(latMax) ==
  {Max(MinRetardo, k) : k \in 0..Max(Min(latMax - 1, MaxRetardo), 0)}

\* nodo.horaLocal + nodo.offsetActual
HoraActual(nodo) == nodo.horaLocal + nodo.offsetActual

ClockAction(desc, hl, msj, ajustes, rttValues) ==
  [descripcion |-> desc, highlightIds |-> hl, mensaje |-> msj,
   ajustes |-> ajustes, rttValues |-> rttValues]

ClockMessage(fromId, toId, tipo) == [fromId |-> fromId, toId |-> toId, tipo |-> tipo]

\* the object { [id]: v }
SoloMut(id, v) == [k \in {0, id} |-> v]
Solo(id, v) == [k \in {id} |-> v]

\* ------------------------------------------------------------------------
\* simularCristian
\* ------------------------------------------------------------------------
\* Math.round(Tserver - (T0 + RTT / 2))
ThetaMut(Tserver, T0, RTT) == MathRound(Tserver - (T0 + RTT), 1)
Theta(Tserver, T0, RTT) == MathRound(2 * (Tserver - T0) - RTT, 2)

\* the three actions pushed per alive node; retardos[i] = <<dIda, dVuelta>>
\* are the delays sampled for the i-th alive node
RECURSIVE CristianPasos(_, _, _, _)
CristianPasos(vivos, baseReal, retardos, i) ==
  IF i > Len(vivos) THEN <<>>
  ELSE LET nodo == vivos[i]
           dIda == retardos[i][1]
           dVuelta == retardos[i][2]
           T0 == HoraActual(nodo)
           Tserver == baseReal + dIda
           RTT == dIda + dVuelta
           theta == Theta(Tserver, T0, RTT)
       IN << ClockAction(<<"cristian_request", nodo.id, dIda, dVuelta>>,
                         Some(<<nodo.id>>),
                         Some(ClockMessage(nodo.id, 0, "request")), None, None),
             ClockAction(<<"cristian_response", nodo.id, HoraTexto(Tserver)>>,
                         Some(<<nodo.id>>),
                         Some(ClockMessage(0, nodo.id, "response")), None, None),
             ClockAction(<<"cristian_ajusta", nodo.id, RTT, theta>>,
                         Some(<<nodo.id>>), None,
                         Some(Solo(nodo.id, theta)), Some(Solo(nodo.id, RTT))) >>
          \o CristianPasos(vivos, baseReal, retardos, i + 1)

simularCristian(ns, retardos) ==
  LET vivos == Vivos(ns) IN
  IF Len(vivos) = 0
  THEN << ClockAction(<<"cristian_sin_activos">>, None, None, None, None) >>
  ELSE LET baseReal == vivos[1].horaLocal - vivos[1].offsetInicial IN
       << ClockAction(<<"cristian_servidor">>, None, None, None, None) >>
       \o CristianPasos(vivos, baseReal, retardos, 1)
       \o << ClockAction(<<"cristian_fin">>, None, None, None, None) >>

\* ------------------------------------------------------------------------
\* simularBerkeley.  The delays sampled for each POLL only appear in the text
\* of its description, which is abbreviated to its template and node ids.
\* ------------------------------------------------------------------------
\* the nodes polled by the loop: it skips the coordinator
EncuestadosMut(vivos, coord) == vivos
Encuestados(vivos, coord) == SelectSeq(vivos, LAMBDA n : n.id # coord.id)

\* horasReportadas after the poll loop and the coordinator's own entry
HorasReportadasMut(vivos, coord) ==
  [id \in Range(Ids(Encuestados(vivos, coord))) |->
     HoraActual(vivos[IndexOfId(vivos, id)])]
HorasReportadas(vivos, coord) ==
  [id \in Range(Ids(Encuestados(vivos, coord))) \cup {coord.id} |->
     HoraActual(vivos[IndexOfId(vivos, id)])]

\* Object.values(horas).reduce((a, b) => a + b, 0)
RECURSIVE Suma(_)
Suma(f) ==
  IF DOMAIN f = {} THEN 0
  ELSE LET k == CHOOSE x \in DOMAIN f : TRUE
       IN f[k] + Suma([x \in DOMAIN f \ {k} |-> f[x]])

\* Math.round(suma / Object.keys(horasReportadas).length)
Promedio(horas) == MathRound(Suma(horas), Cardinality(DOMAIN horas))

RECURSIVE BerkeleyPolls(_, _, _)
BerkeleyPolls(coord, otros, i) ==
  IF i > Len(otros) THEN <<>>
  ELSE LET nodo == otros[i] IN
       << ClockAction(<<"berkeley_poll", coord.id, nodo.id>>,
                      Some(<<coord.id, nodo.id>>),
                      Some(ClockMessage(coord.id, nodo.id, "berkeley-poll")), None, None),
          ClockAction(<<"berkeley_responde", nodo.id, HoraTexto(HoraActual(nodo))>>,
                      Some(<<coord.id, nodo.id>>),
                      Some(ClockMessage(nodo.id, coord.id, "response")), None, None) >>
       \o BerkeleyPolls(coord, otros, i + 1)

\* promedio - horaActual
DiffMut(promedio, nodo) == promedio - nodo.horaLocal
Diff(promedio, nodo) == promedio - HoraActual(nodo)

RECURSIVE BerkeleyAjustes(_, _, _, _)
BerkeleyAjustes(coord, vivos, promedio, i) ==
  IF i > Len(vivos) THEN <<>>
  ELSE LET nodo == vivos[i] IN
       << ClockAction(<<"berkeley_envia_ajuste", coord.id, nodo.id, Diff(promedio, nodo)>>,
                      Some(<<coord.id, nodo.id>>),
                      Some(ClockMessage(coord.id, nodo.id, "berkeley-offset")), None, None) >>
       \o BerkeleyAjustes(coord, vivos, promedio, i + 1)

simularBerkeley(ns) ==
  LET vivos == Vivos(ns) IN
  IF Len(vivos) = 0
  THEN << ClockAction(<<"berkeley_sin_activos">>, None, None, None, None) >>
  ELSE LET coord == vivos[1]
           horasReportadas == HorasReportadas(vivos, coord)
           promedio == Promedio(horasReportadas)
           offsets == [id \in Range(Ids(vivos)) |->
                         Diff(promedio, vivos[IndexOfId(vivos, id)])]
       IN << ClockAction(<<"berkeley_coordinador", coord.id>>,
                         Some(<<coord.id>>), None, None, None) >>
          \o BerkeleyPolls(coord, Encuestados(vivos, coord), 1)
          \o << ClockAction(<<"berkeley_recopila", coord.id,
                              Cardinality(DOMAIN horasReportadas)>>,
                            Some(<<coord.id>>), None, None, None),
                ClockAction(<<"berkeley_promedio", HoraTexto(promedio),
                              Cardinality(DOMAIN horasReportadas)>>,
                            Some(<<coord.id>>), None, None, None) >>
          \o BerkeleyAjustes(coord, vivos, promedio, 1)
          \o << ClockAction(<<"berkeley_aplican">>, Some(Ids(vivos)), None,
                            Some(offsets), None) >>

\* ------------------------------------------------------------------------
\* ClockSyncSimulator: state after construction
\* ------------------------------------------------------------------------
ClockAlgorithms == {"cristian", "berkeley"}

InitReloj ==
  /\ rNumNodos = DefRelojes
  /\ rAlgoritmoActivo = "cristian"
  /\ latenciaMax = IniLatencia
  /\ rNodos = <<>>
  /\ rAcciones = <<>>
  /\ rPasoIndex = 0
  /\ rIsPlaying = FALSE
  /\ rMensajeActual = None
  /\ rSpeed = <<1, 1>>
  /\ rLogs = 0
  /\ rTimers = {}
  /\ hRAplicadas = <<>>
  /\ hRCorridas = 0
  /\ rHastaTick = TickMs

\* ------------------------------------------------------------------------
\* ClockSyncSimulator: handlers.  Each action is the handler followed by the
\* commit of the render it schedules.
\* ------------------------------------------------------------------------
\* 900 / speed
RDelay(s) == (RBaseMs * s[2]) \div s[1]

\* prev.map((n) => ({...n, highlighted: ids.includes(n.id)}))
RResaltar(ns, ids) ==
  [i \in DOMAIN ns |-> [ns[i] EXCEPT !.highlighted = (ns[i].id \in Range(ids))]]

\* the setNodos of avanzarPaso that overwrites offsetActual and rtt
AjustarMut(ns, acc) ==
  IF acc.ajustes = None /\ acc.rttValues = None THEN ns
  ELSE [i \in DOMAIN ns |->
          [ns[i] EXCEPT
             !.offsetActual = IF acc.ajustes # None /\ ns[i].id \in DOMAIN acc.ajustes[1]
                              THEN acc.ajustes[1][ns[i].id] ELSE 0,
             !.rtt = IF acc.rttValues # None /\ ns[i].id \in DOMAIN acc.rttValues[1]
                     THEN Some(acc.rttValues[1][ns[i].id]) ELSE @]]
Ajustar(ns, acc) ==
  IF acc.ajustes = None /\ acc.rttValues = None THEN ns
  ELSE [i \in DOMAIN ns |->
          [ns[i] EXCEPT
             !.offsetActual = IF acc.ajustes # None /\ ns[i].id \in DOMAIN acc.ajustes[1]
                              THEN acc.ajustes[1][ns[i].id] ELSE @,
             !.rtt = IF acc.rttValues # None /\ ns[i].id \in DOMAIN acc.rttValues[1]
                     THEN Some(acc.rttValues[1][ns[i].id]) ELSE @]]

\* the part of the auto-play effect's dependency list that is compared by
\* value: [isPlaying, pasoIndex, acciones.length, speed]
RDepsPlay(playing, idx, accs, s) == <<playing, idx, Len(accs), s>>

\* the timers left after the commit.  renovado: the event stored a new
\* acciones or nodos array, so useCallback returned a new avanzarPaso
REfectoPlayMut(pendientes, renovado, depsAntes, depsDespues) ==
  IF ~renovado /\ depsAntes = depsDespues THEN pendientes
  ELSE IF depsDespues[1] /\ depsDespues[2] < depsDespues[3]
       THEN {[delay |-> RDelay(depsDespues[4])]}
       ELSE pendientes
REfectoPlay(pendientes, renovado, depsAntes, depsDespues) ==
  IF ~renovado /\ depsAntes = depsDespues THEN pendientes
  ELSE IF depsDespues[1] /\ depsDespues[2] < depsDespues[3]
       THEN {[delay |-> RDelay(depsDespues[4])]}
       ELSE {}

RRender(pendientes, renovado) ==
  /\ UNCHANGED <<ruta, eVars>>
  /\ rTimers' = REfectoPlay(pendientes, renovado,
                            RDepsPlay(rIsPlaying, rPasoIndex, rAcciones, rSpeed),
                            RDepsPlay(rIsPlaying', rPasoIndex', rAcciones', rSpeed'))

\* the commit of an event that takes no time: the interval keeps its phase
RCommit(pendientes, renovado) ==
  /\ RRender(pendientes, renovado)
  /\ UNCHANGED rHastaTick

\* avanzarPaso() of the clock page, with the acciones, pasoIndex and nodos of
\* the render it was created in
RAvanzarPaso ==
  IF rPasoIndex >= Len(rAcciones)
  THEN /\ rIsPlaying' = FALSE
       /\ UNCHANGED <<rPasoIndex, rMensajeActual, rNodos, rLogs, hRAplicadas>>
  ELSE LET acc == rAcciones[rPasoIndex + 1] IN
       /\ rLogs' = PushLog(rLogs,
                           IF acc.ajustes # None
                           THEN Cardinality(DOMAIN acc.ajustes[1] \cap Range(Ids(rNodos)))
                           ELSE 1)
       /\ rNodos' = Ajustar(RResaltar(rNodos,
                                      IF acc.highlightIds # None
                                      THEN acc.highlightIds[1] ELSE <<>>),
                            acc)
       /\ rMensajeActual' = acc.mensaje
       /\ rPasoIndex' = rPasoIndex + 1
       /\ hRAplicadas' = Append(hRAplicadas, acc)
       /\ UNCHANGED rIsPlaying

\* the interval of the clock effect: every node's horaLocal advances
TickMut ==
  /\ Len(rNodos) > 0
  /\ rNodos[1].horaLocal < Ahora + MaxTicks * TickMs
  /\ rNodos' = [i \in DOMAIN rNodos |->
                  [rNodos[i] EXCEPT !.horaLocal = @ + TickMs,
                                     !.offsetActual = @ + TickMs]]
  /\ UNCHANGED <<rNumNodos, rAlgoritmoActivo, latenciaMax, rAcciones, rPasoIndex,
                 rIsPlaying, rMensajeActual, rSpeed, rLogs, hRAplicadas, hRCorridas>>
  /\ RCommit(rTimers, TRUE)
Tick ==
  /\ Len(rNodos) > 0
  /\ rNodos[1].horaLocal < Ahora + MaxTicks * TickMs
  /\ rNodos' = [i \in DOMAIN rNodos |->
                  [rNodos[i] EXCEPT !.horaLocal = @ + TickMs]]
  /\ UNCHANGED <<rNumNodos, rAlgoritmoActivo, latenciaMax, rAcciones, rPasoIndex,
                 rIsPlaying, rMensajeActual, rSpeed, rLogs, hRAplicadas, hRCorridas>>
  /\ RCommit(rTimers, TRUE)

\* handleSincronizar, for at most `corridas` runs since the clocks were
\* generated
handleSincronizarHasta(corridas) ==
  /\ hRCorridas < corridas
  /\ IF Len(rNodos) = 0
     THEN /\ rLogs' = PushLog(rLogs, 1)
          /\ UNCHANGED <<rNodos, rMensajeActual, rAcciones, rPasoIndex, rIsPlaying,
                         hRAplicadas, hRCorridas>>
     ELSE /\ rNodos' = RResaltar(rNodos, <<>>)
          /\ rMensajeActual' = None
          /\ rLogs' = PushLog(rLogs, 1)
          /\ IF rAlgoritmoActivo = "cristian"
             THEN \E retardos \in [1..Len(Vivos(rNodos)) ->
                                     Retardos(latenciaMax) \X Retardos(latenciaMax)] :
                    rAcciones' = simularCristian(rNodos, retardos)
             ELSE rAcciones' = simularBerkeley(rNodos)
          /\ rPasoIndex' = 0
          /\ rIsPlaying' = TRUE
          /\ hRAplicadas' = <<>>
          /\ hRCorridas' = hRCorridas + 1
  /\ UNCHANGED <<rNumNodos, rAlgoritmoActivo, latenciaMax, rSpeed>>
  /\ RCommit(rTimers, Len(rNodos) > 0)

handleSincronizar == handleSincronizarHasta(MaxCorridas)

\* onClick of the speed buttons: setSpeed
RCambiarSpeed(v) ==
  /\ rSpeed' = v
  /\ UNCHANGED <<rNumNodos, rAlgoritmoActivo, latenciaMax, rNodos, rAcciones,
                 rPasoIndex, rIsPlaying, rMensajeActual, rLogs, hRAplicadas, hRCorridas>>
  /\ RCommit(rTimers, FALSE)

\* onClick of "Play": setIsPlaying(true)
RPlay ==
  /\ rIsPlaying' = TRUE
  /\ UNCHANGED <<rNumNodos, rAlgoritmoActivo, latenciaMax, rNodos, rAcciones,
                 rPasoIndex, rMensajeActual, rSpeed, rLogs, hRAplicadas, hRCorridas>>
  /\ RCommit(rTimers, FALSE)

\* onClick of "Pause": setIsPlaying(false)
RPause ==
  /\ rIsPlaying' = FALSE
  /\ UNCHANGED <<rNumNodos, rAlgoritmoActivo, latenciaMax, rNodos, rAcciones,
                 rPasoIndex, rMensajeActual, rSpeed, rLogs, hRAplicadas, hRCorridas>>
  /\ RCommit(rTimers, FALSE)

\* onClick of "Paso": avanzarPaso
RPaso ==
  /\ RAvanzarPaso
  /\ UNCHANGED <<rNumNodos, rAlgoritmoActivo, latenciaMax, rAcciones, rSpeed, hRCorridas>>
  /\ RCommit(rTimers, rPasoIndex < Len(rAcciones))

\* the pending timeout of the auto-play effect expires: () => avanzarPaso()
RTimerPlay ==
  \E t \in rTimers :
    /\ RAvanzarPaso
    /\ UNCHANGED <<rNumNodos, rAlgoritmoActivo, latenciaMax, rAcciones, rSpeed, hRCorridas>>
    /\ RCommit(rTimers \ {t}, rPasoIndex < Len(rAcciones))

\* values typed into the "Nodos" field of the clock page (0..99 accepted): the
\* smallest accepted count and the one below it
CamposRelojes == (MinRelojes - 1)..MinRelojes

\* onChange of the "Nodos" input of the clock page
RCambiarNumNodos(v) ==
  /\ rNumNodos' = v
  /\ UNCHANGED <<rAlgoritmoActivo, latenciaMax, rNodos, rAcciones, rPasoIndex,
                 rIsPlaying, rMensajeActual, rSpeed, rLogs, hRAplicadas, hRCorridas>>
  /\ RCommit(rTimers, FALSE)

\* onChange of the "Algoritmo" select of the clock page: setAlgoritmoActivo
RCambiarAlgoritmo(a) ==
  /\ rAlgoritmoActivo' = a
  /\ UNCHANGED <<rNumNodos, latenciaMax, rNodos, rAcciones, rPasoIndex,
                 rIsPlaying, rMensajeActual, rSpeed, rLogs, hRAplicadas, hRCorridas>>
  /\ RCommit(rTimers, FALSE)

\* values typed into the "Latencia" field (0..9999 accepted): one outside the
\* range handleGenerarRelojes accepts
CamposLatencia == {LimLatencia + 1}

\* onChange of the "Latencia" input: setLatenciaMax
CambiarLatencia(v) ==
  /\ latenciaMax' = v
  /\ UNCHANGED <<rNumNodos, rAlgoritmoActivo, rNodos, rAcciones, rPasoIndex,
                 rIsPlaying, rMensajeActual, rSpeed, rLogs, hRAplicadas, hRCorridas>>
  /\ RCommit(rTimers, FALSE)

NumRelojesValido == rNumNodos >= MinRelojes /\ rNumNodos <= LimRelojes

LatenciaValida == latenciaMax >= MinLatencia /\ latenciaMax <= LimLatencia

handleGenerarRelojesMut ==
  /\ ~NumRelojesValido \/ rNumNodos <= MaxRelojes
  /\ IF ~NumRelojesValido
     THEN /\ rNumNodos' = DefRelojes
          /\ UNCHANGED <<latenciaMax, rNodos, rAcciones, rPasoIndex, rIsPlaying,
                         rMensajeActual, rLogs, hRAplicadas, hRCorridas>>
     ELSE IF ~LatenciaValida
     THEN /\ latenciaMax' = DefLatencia
          /\ UNCHANGED <<rNumNodos, rNodos, rAcciones, rPasoIndex, rIsPlaying,
                         rMensajeActual, rLogs, hRAplicadas, hRCorridas>>
     ELSE /\ rNodos' \in generarRelojes(rNumNodos, rAlgoritmoActivo, Ahora)
          /\ rAcciones' = <<>>
          /\ rPasoIndex' = rPasoIndex
          /\ rIsPlaying' = FALSE
          /\ rMensajeActual' = None
          /\ rLogs' = Min(3, MaxLogs)
          /\ hRAplicadas' = <<>>
          /\ hRCorridas' = 0
          /\ UNCHANGED <<rNumNodos, latenciaMax>>
  /\ UNCHANGED <<rAlgoritmoActivo, rSpeed>>
  /\ RCommit(rTimers, NumRelojesValido /\ LatenciaValida)

handleGenerarRelojes ==
  /\ ~NumRelojesValido \/ rNumNodos <= MaxRelojes
  /\ IF ~NumRelojesValido
     THEN /\ rNumNodos' = DefRelojes
          /\ UNCHANGED <<latenciaMax, rNodos, rAcciones, rPasoIndex, rIsPlaying,
                         rMensajeActual, rLogs, hRAplicadas, hRCorridas>>
     ELSE IF ~LatenciaValida
     THEN /\ latenciaMax' = DefLatencia
          /\ UNCHANGED <<rNumNodos, rNodos, rAcciones, rPasoIndex, rIsPlaying,
                         rMensajeActual, rLogs, hRAplicadas, hRCorridas>>
     ELSE /\ rNodos' \in generarRelojes(rNumNodos, rAlgoritmoActivo, Ahora)
          /\ rAcciones' = <<>>
          /\ rPasoIndex' = 0
          /\ rIsPlaying' = FALSE
          /\ rMensajeActual' = None
          /\ rLogs' = Min(3, MaxLogs)
          /\ hRAplicadas' = <<>>
          /\ hRCorridas' = 0
          /\ UNCHANGED <<rNumNodos, latenciaMax>>
  /\ UNCHANGED <<rAlgoritmoActivo, rSpeed>>
  /\ RCommit(rTimers, NumRelojesValido /\ LatenciaValida)

\* onClick of "Limpiar logs" of the clock page
RhandleClearLogs ==
  /\ rLogs' = 0
  /\ UNCHANGED <<rNumNodos, rAlgoritmoActivo, latenciaMax, rNodos, rAcciones,
                 rPasoIndex, rIsPlaying, rMensajeActual, rSpeed, hRAplicadas,
                 hRCorridas>>
  /\ RCommit(rTimers, FALSE)

\* ------------------------------------------------------------------------
\* Specifications of the clock compilers.  Clocks are as generarRelojes makes
\* them, with the offsetActual an earlier synchronisation may have left.
\* simularCristian treats every node on its own, so it is explored on the
\* smallest accepted number of clocks with every combination of delays.
\* ------------------------------------------------------------------------
OffsetsAplicados == {0 - MaxOffset, 0, MaxOffset}

\* ns with the offsetActual values aj
ConAjustes(ns, aj) == [i \in DOMAIN ns |-> [ns[i] EXCEPT !.offsetActual = aj[i]]]

InitSincronizar(cantidades, alg) ==
  /\ ruta = "/clocks"
  /\ InitEleccion
  /\ rNumNodos = DefRelojes
  /\ rAlgoritmoActivo = alg
  /\ latenciaMax = IniLatencia
  /\ \E c \in cantidades :
       \E ns \in generarRelojes(c, alg, Ahora) :
         \E aj \in [1..(c + 1) -> OffsetsAplicados] :
           rNodos = ConAjustes(ns, aj)
  /\ rAcciones = <<>>
  /\ rPasoIndex = 0
  /\ rIsPlaying = FALSE
  /\ rMensajeActual = None
  /\ rSpeed = <<1, 1>>
  /\ rLogs = 0
  /\ rTimers = {}
  /\ hRAplicadas = <<>>
  /\ hRCorridas = 0
  /\ rHastaTick = TickMs

InitCristian == InitSincronizar({MinRelojes}, "cristian")

InitBerkeley == InitSincronizar(MinRelojes..MaxRelojes, "berkeley")

CompilarCristian ==
  /\ rAcciones = <<>>
  /\ \E retardos \in [1..Len(Vivos(rNodos)) -> Retardos(latenciaMax) \X Retardos(latenciaMax)] :
       rAcciones' = simularCristian(rNodos, retardos)
  /\ UNCHANGED <<ruta, eVars, rNumNodos, rAlgoritmoActivo, latenciaMax, rNodos, rPasoIndex,
                 rIsPlaying, rMensajeActual, rSpeed, rLogs, rTimers, hRAplicadas, hRCorridas,
                 rHastaTick>>

CompilarBerkeley ==
  /\ rAcciones = <<>>
  /\ rAcciones' = simularBerkeley(rNodos)
  /\ UNCHANGED <<ruta, eVars, rNumNodos, rAlgoritmoActivo, latenciaMax, rNodos, rPasoIndex,
                 rIsPlaying, rMensajeActual, rSpeed, rLogs, rTimers, hRAplicadas, hRCorridas,
                 rHastaTick>>

SpecCristian == InitCristian /\ [][CompilarCristian]_vars

SpecBerkeley == InitBerkeley /\ [][CompilarBerkeley]_vars

RCompilado == rAcciones # <<>>

\* the REQUEST and the adjustment action compiled for the i-th alive node
CristianRequest(i) == rAcciones[3 * i - 1]
CristianAjuste(i) == rAcciones[3 * i + 1]

\* twice trueTime + d1 - (clientSendTime + (d1 + d2) / 2) for the i-th node,
\* from the clocks the compiler was given and the delays of its REQUEST
DobleDesfase(i) ==
  LET d1 == CristianRequest(i).descripcion[3]
      d2 == CristianRequest(i).descripcion[4]
      trueTime == rNodos[1].horaLocal - rNodos[1].offsetInicial
      clientSendTime == rNodos[i].horaLocal + rNodos[i].offsetActual
  IN 2 * (trueTime + d1 - clientSendTime) - (d1 + d2)

AjustesFinales == rAcciones[Len(rAcciones)].ajustes[1]

\* the times the nodes report: horaLocal + offsetActual
HorasDeNodos == [i \in DOMAIN rNodos |-> rNodos[i].horaLocal + rNodos[i].offsetActual]

\* C6: in a sequence compiled by simularBerkeley, every adjustment is the
\* difference between one average P and the node's reported time, and P is
\* round(mean of the reported times of all alive nodes, coordinator included,
\* each once): 2nP - n <= 2 * sum < 2nP + n.
C6_BerkeleyPromedio ==
  RCompilado =>
    LET n == Len(rNodos)
        P == AjustesFinales[rNodos[1].id] + HorasDeNodos[1]
        S == Suma(HorasDeNodos)
    IN /\ DOMAIN AjustesFinales = Range(Ids(rNodos))
       /\ \A i \in DOMAIN rNodos : AjustesFinales[rNodos[i].id] + HorasDeNodos[i] = P
       /\ 2 * n * P - n <= 2 * S
       /\ 2 * S < 2 * n * P + n

\* a compiled Berkeley run over an even number of nodes whose mean is an
\* exact half
C6_Witness ==
  /\ RCompilado
  /\ Len(rNodos) % 2 = 0
  /\ (2 * Suma(HorasDeNodos)) % (2 * Len(rNodos)) = Len(rNodos)

Abs(x) == IF x < 0 THEN 0 - x ELSE x

\* C7: in a sequence compiled by simularBerkeley for n alive nodes, the
\* adjustments of the terminal action add up to at most n in absolute value.
C7_BerkeleySumaAjustes ==
  RCompilado => Abs(Suma(AjustesFinales)) <= Len(Vivos(rNodos))

\* a compiled Berkeley run whose adjustments do not cancel out
C7_Witness ==
  /\ RCompilado
  /\ Suma(AjustesFinales) # 0
  /\ \E i \in DOMAIN rNodos : AjustesFinales[rNodos[i].id] > 0
  /\ \E i \in DOMAIN rNodos : AjustesFinales[rNodos[i].id] < 0

\* ------------------------------------------------------------------------
\* Specifications of the election page
\* ------------------------------------------------------------------------
\* node arrays of the page: a generated array after any fail/revive toggles
NodosConFallas ==
  UNION {{[i \in DOMAIN ns |-> [ns[i] EXCEPT !.failed = f[i]]] :
            f \in [DOMAIN ns -> BOOLEAN]} :
         ns \in UNION {generarNodos(c) : c \in MinNodos..MaxNodos}}

\* a node array and a selected initiator, nothing compiled yet
InitCompilar ==
  /\ InitEleccion!1 /\ InitEleccion!2
  /\ nodos \in NodosConFallas
  /\ leaderId = None
  /\ modoIniciador = FALSE
  /\ nodoIniciador \in {Some(nodos[i].id) : i \in DOMAIN nodos}
  /\ acciones = <<>>
  /\ pasoIndex = 0
  /\ isPlaying = FALSE
  /\ mensajeActual = None
  /\ speed = <<1, 1>>
  /\ logs = 0
  /\ avanzarPasoAcciones = <<>>
  /\ timers = {}
  /\ hAplicadas = <<>>
  /\ hCorrida = SinCorrida
  /\ ruta = "/election"
  /\ InitReloj

CompilarBully ==
  /\ acciones = <<>>
  /\ acciones' = simularBully(nodos, nodoIniciador[1])
  /\ UNCHANGED <<numNodos, algoritmoActivo, nodos, leaderId, modoIniciador,
                 nodoIniciador, pasoIndex, isPlaying, mensajeActual, speed, logs,
                 avanzarPasoAcciones, timers, hAplicadas, hCorrida, ruta, rVars>>

CompilarRing ==
  /\ acciones = <<>>
  /\ acciones' = simularRingCompleto(nodos, nodoIniciador[1])
  /\ UNCHANGED <<numNodos, algoritmoActivo, nodos, leaderId, modoIniciador,
                 nodoIniciador, pasoIndex, isPlaying, mensajeActual, speed, logs,
                 avanzarPasoAcciones, timers, hAplicadas, hCorrida, ruta, rVars>>

\* simularBully applied to every node array and initiator
SpecBully == InitCompilar /\ [][CompilarBully]_vars

\* simularRingCompleto applied to every node array and initiator
SpecRing == InitCompilar /\ [][CompilarRing]_vars

\* ------------------------------------------------------------------------
\* Properties of the compilers of the election page
\* ------------------------------------------------------------------------
VivosIds(ns) == {ns[i].id : i \in {j \in DOMAIN ns : ~ns[j].failed}}
MaxVivo(ns) == CHOOSE m \in VivosIds(ns) : \A x \in VivosIds(ns) : x <= m
IniciadorVivo == nodoIniciador # None /\ nodoIniciador[1] \in VivosIds(nodos)
Compilado == acciones # <<>>
ConMensaje(accs, tipo) ==
  {i \in DOMAIN accs : accs[i].mensaje # None /\ accs[i].mensaje[1].tipo = tipo}

\* C1: simularBully with an alive initiator: the last action carries
\* leaderId = the maximum id over the alive nodes, and no earlier action
\* carries a leaderId.
C1_BullyLiderMaximo ==
  (Compilado /\ IniciadorVivo) =>
     /\ acciones[Len(acciones)].leaderId = Some(MaxVivo(nodos))
     /\ \A i \in 1..(Len(acciones) - 1) : acciones[i].leaderId = None

\* a compiled Bully run whose initiator is alive and has alive superiors,
\* while the node of highest id is failed
C1_Witness ==
  /\ Compilado /\ IniciadorVivo
  /\ nodoIniciador[1] # MaxVivo(nodos)
  /\ \E i \in DOMAIN nodos : nodos[i].failed /\ nodos[i].id > MaxVivo(nodos)

Regresos(accs) == {i \in DOMAIN accs : accs[i].descripcion[1] = "ring_regresa"}

\* C3: simularRingCompleto with an alive initiator: the accumulator at the
\* end of phase 1 holds exactly the alive ids, each once, and the elected
\* leader is the maximum alive id.
C3_RingAcumulador ==
  (Compilado /\ IniciadorVivo) =>
     /\ Cardinality(Regresos(acciones)) = 1
     /\ \A i \in Regresos(acciones) :
          /\ Range(acciones[i].descripcion[3]) = VivosIds(nodos)
          /\ Len(acciones[i].descripcion[3]) = Cardinality(VivosIds(nodos))
          /\ acciones[i].descripcion[4] = MaxVivo(nodos)
     /\ acciones[Len(acciones)].leaderId = Some(MaxVivo(nodos))

\* a compiled Ring run with at least two alive nodes whose initiator is not
\* the first alive node of the array nor the highest
C3_Witness ==
  /\ Compilado /\ IniciadorVivo
  /\ Cardinality(VivosIds(nodos)) >= 2
  /\ Vivos(nodos)[1].id # nodoIniciador[1]
  /\ nodoIniciador[1] # MaxVivo(nodos)
  /\ Regresos(acciones) # {}

\* C4: simularRingCompleto with n alive nodes and an alive initiator: n
\* ring1 messages, n ring2 messages, every ring1 before every ring2; for
\* n = 1 each phase is one message whose sender is its receiver.
C4_RingMensajes ==
  (Compilado /\ IniciadorVivo) =>
     LET n == Cardinality(VivosIds(nodos))
         r1 == ConMensaje(acciones, "ring1")
         r2 == ConMensaje(acciones, "ring2")
     IN /\ Cardinality(r1) = n
        /\ Cardinality(r2) = n
        /\ \A i \in r1, j \in r2 : i < j
        /\ n = 1 => \A i \in r1 \cup r2 :
                       acciones[i].mensaje[1].fromId = acciones[i].mensaje[1].toId

\* a compiled Ring run over a single alive node
C4_Witness ==
  /\ Compilado /\ IniciadorVivo
  /\ Cardinality(VivosIds(nodos)) = 1
  /\ ConMensaje(acciones, "ring2") # {}

\* ------------------------------------------------------------------------
\* Specification of the playback controllers: one of the two simulator pages
\* is mounted, its nodes were just generated, and the user compiles and plays
\* runs on them.
\* ------------------------------------------------------------------------
\* the election page right after handleGenerarNodos; the algorithm select
\* keeps its initial value
InitPlayEleccion ==
  /\ ruta = "/election"
  /\ numNodos \in MinNodos..MaxNodos
  /\ algoritmoActivo = "bully"
  /\ nodos \in generarNodos(numNodos)
  /\ leaderId = None
  /\ modoIniciador = FALSE
  /\ nodoIniciador = None
  /\ acciones = <<>>
  /\ pasoIndex = 0
  /\ isPlaying = FALSE
  /\ mensajeActual = None
  /\ speed = <<1, 1>>
  /\ logs = Min(2, MaxLogs)
  /\ avanzarPasoAcciones = <<>>
  /\ timers = {}
  /\ hAplicadas = <<>>
  /\ hCorrida = SinCorrida
  /\ InitReloj

NextPlayEleccion ==
  /\ ruta = "/election"
  /\ \/ \E id \in IdPool : ClickNodo(id)
     \/ ActivarModoIniciador
     \/ \E v \in Speeds : CambiarSpeed(v)
     \/ handleIniciarEleccion
     \/ handlePlay
     \/ handlePause
     \/ handlePaso
     \/ TimerPlay

\* the clock page right after handleGenerarRelojes for the smallest accepted
\* number of clocks
InitPlayReloj ==
  /\ ruta = "/clocks"
  /\ InitEleccion
  /\ rNumNodos = MinRelojes
  /\ rAlgoritmoActivo \in ClockAlgorithms
  /\ latenciaMax = IniLatencia
  /\ rNodos \in generarRelojes(rNumNodos, rAlgoritmoActivo, Ahora)
  /\ rAcciones = <<>>
  /\ rPasoIndex = 0
  /\ rIsPlaying = FALSE
  /\ rMensajeActual = None
  /\ rSpeed = <<1, 1>>
  /\ rLogs = Min(3, MaxLogs)
  /\ rTimers = {}
  /\ hRAplicadas = <<>>
  /\ hRCorridas = 0
  /\ rHastaTick = TickMs

NextPlayReloj ==
  /\ ruta = "/clocks"
  /\ \/ handleSincronizar
     \/ \E v \in Speeds : RCambiarSpeed(v)
     \/ RPlay
     \/ RPause
     \/ RPaso
     \/ RTimerPlay
     \/ Tick

InitPlay == InitPlayEleccion \/ InitPlayReloj

NextPlay == NextPlayEleccion \/ NextPlayReloj

SpecPlay == InitPlay /\ [][NextPlay]_vars

\* the actions applied since the sequence was compiled are its first
\* pasoIndex actions, in order
EnOrdenEleccion ==
  /\ pasoIndex <= Len(acciones)
  /\ hAplicadas = SubSeq(acciones, 1, pasoIndex)

EnOrdenReloj ==
  /\ rPasoIndex <= Len(rAcciones)
  /\ hRAplicadas = SubSeq(rAcciones, 1, rPasoIndex)

\* C8: in both simulators, whatever the interleaving of play, pause, manual
\* step, speed change and timer firing, the k-th step applied since a
\* sequence was compiled is that sequence's action at index k, each index is
\* applied once and in increasing order.
C8_PlaybackEnOrden == EnOrdenEleccion /\ EnOrdenReloj

CorridaCompleta ==
  /\ hCorrida.alg = "bully"
  /\ hCorrida.etapa = "intacta"
  /\ Len(acciones) > 0
  /\ pasoIndex = Len(acciones)
  /\ hCorrida.iniciador[1] \in VivosIds(nodos)

\* C10: election page with Bully.  Once the playback of a run whose initiator
\* is alive and not the highest alive node completes, leaderId is the maximum
\* alive id; and when that leader was then marked failed and the election run
\* again with the same initiator, the playback completes with leaderId the
\* highest remaining alive id.
C10_BullyExtremoAExtremo ==
  /\ (CorridaCompleta /\ hCorrida.iniciador[1] # MaxVivo(nodos))
       => leaderId = Some(MaxVivo(nodos))
  /\ (CorridaCompleta /\ hCorrida.trasFallo)
       => leaderId = Some(MaxVivo(nodos))

\* C11: on the election page every step that advances the cursor applies the
\* action at the cursor of the sequence compiled last, and the step that
\* completes a run leaves leaderId at the leaderId of that sequence's terminal
\* action.
C11_SinPasosViejos ==
  [][(ruta = "/election" /\ pasoIndex' = pasoIndex + 1) =>
       /\ hAplicadas' = Append(hAplicadas, acciones[pasoIndex + 1])
       /\ (pasoIndex' = Len(acciones) /\ acciones[Len(acciones)].leaderId # None)
            => leaderId' = acciones[Len(acciones)].leaderId]_vars

\* ------------------------------------------------------------------------
\* Specification of the control panels: one of the two simulator pages is
\* mounted and the user edits the fields, generates nodes, switches the
\* algorithm, and compiles and plays runs.  On the election page no node is
\* marked as failed: clicks on nodes only select the initiator.
\* ------------------------------------------------------------------------
InitPanel ==
  /\ ruta \in {"/election", "/clocks"}
  /\ InitEleccion
  /\ InitReloj

NextPanelEleccion ==
  /\ ruta = "/election"
  /\ \/ \E v \in CamposNumNodos : CambiarNumNodos(v)
     \/ \E a \in Algorithms : CambiarAlgoritmo(a)
     \/ handleGenerarNodos
     \/ ActivarModoIniciador
     \/ \E id \in IdPool : modoIniciador /\ ClickNodo(id)
     \/ handleIniciarEleccion
     \/ handlePlay
     \/ handlePause
     \/ handlePaso
     \/ TimerPlay

NextPanelReloj ==
  /\ ruta = "/clocks"
  /\ \/ \E v \in CamposRelojes : RCambiarNumNodos(v)
     \/ \E a \in ClockAlgorithms : RCambiarAlgoritmo(a)
     \/ \E v \in CamposLatencia : CambiarLatencia(v)
     \/ handleGenerarRelojes
     \/ handleSincronizar
     \/ RPlay
     \/ RPause
     \/ RPaso
     \/ RTimerPlay

NextPanel == NextPanelEleccion \/ NextPanelReloj

SpecPanel == InitPanel /\ [][NextPanel]_vars

\* a play or step request on the election page while no sequence is compiled
\* appends one log line and changes nothing else
SinSecuenciaEleccion ==
  ((handlePlay \/ handlePaso) /\ ruta = "/election" /\ acciones = <<>>) =>
     /\ logs < MaxLogs => logs' = logs + 1
     /\ UNCHANGED <<pasoIndex, isPlaying, leaderId, nodos, mensajeActual>>

\* the same on the clock page
SinSecuenciaReloj ==
  ((RPlay \/ RPaso) /\ ruta = "/clocks" /\ rAcciones = <<>>) =>
     /\ rLogs < MaxLogs => rLogs' = rLogs + 1
     /\ UNCHANGED <<rPasoIndex, rIsPlaying, rNodos, rMensajeActual>>

\* C12: in both simulators a play request or a manual step request made
\* while the sequence is empty appends exactly one log line and leaves the
\* cursor, the play flag, the leader, the nodes (offsets, highlights) and the
\* in-flight message unchanged.
C12_SinSecuencia == [][SinSecuenciaEleccion /\ SinSecuenciaReloj]_vars

\* an election is started while the selected initiator is marked as failed
IniciaConIniciadorCaido ==
  /\ handleIniciarEleccion
  /\ ruta = "/election"
  /\ nodoIniciador # None
  /\ Len(nodos) > 0
  /\ ~IniciadorVivo

NumNodosValido == numNodos >= MinNodos /\ numNodos <= LimNodos

\* the controller state of the election page after a regeneration
DescartadoEleccion ==
  /\ acciones = <<>>
  /\ pasoIndex = 0
  /\ ~isPlaying
  /\ mensajeActual = None
  /\ timers = {}
  /\ leaderId = None

\* the controller state of the clock page after a regeneration
DescartadoReloj ==
  /\ rAcciones = <<>>
  /\ rPasoIndex = 0
  /\ ~rIsPlaying
  /\ rMensajeActual = None
  /\ rTimers = {}
  /\ \A i \in DOMAIN rNodos : rNodos[i].offsetActual = 0

GeneraEleccion == ruta = "/election" /\ NumNodosValido /\ handleGenerarNodos

\* C14: a generate request with a valid node count, from any controller
\* state, leaves the sequence empty, the cursor at 0, playback stopped, no
\* message in flight, no pending continuation, no leader and every clock
\* node's applied offset at 0.
C14_GenerarDescarta ==
  [][/\ GeneraEleccion => DescartadoEleccion'
     /\ (ruta = "/clocks" /\ NumRelojesValido /\ handleGenerarRelojes)
          => DescartadoReloj']_vars

\* C14, as the code has it: the same, where on the clock page the latency
\* field must also hold a value within its bounds for the request to be
\* carried out.
C14_RegenerarDescarta ==
  [][/\ GeneraEleccion => DescartadoEleccion'
     /\ (ruta = "/clocks" /\ NumRelojesValido /\ LatenciaValida
           /\ handleGenerarRelojes) => DescartadoReloj']_vars

\* the clock page in the middle of automatic playback, with a message in
\* flight and a continuation pending, from where the generate request is
\* carried out and discards all of it
C14_Witness ==
  /\ ruta = "/clocks"
  /\ rIsPlaying
  /\ rPasoIndex > 0
  /\ rPasoIndex < Len(rAcciones)
  /\ rMensajeActual # None
  /\ rTimers # {}
  /\ NumRelojesValido
  /\ LatenciaValida
  /\ ENABLED (handleGenerarRelojes /\ rNodos' # rNodos /\ DescartadoReloj')

\* C15: a change of the selected algorithm, on either page and from any
\* state, leaves the sequence empty, the cursor at 0 and playback stopped.
C15_CambioDescarta ==
  [][/\ (ruta = "/election" /\ algoritmoActivo' # algoritmoActivo)
          => (acciones' = <<>> /\ pasoIndex' = 0 /\ ~isPlaying')
     /\ (ruta = "/clocks" /\ rAlgoritmoActivo' # rAlgoritmoActivo)
          => (rAcciones' = <<>> /\ rPasoIndex' = 0 /\ ~rIsPlaying')]_vars

\* C16: a pause request discards the pending continuation, and while playback
\* is paused no continuation is pending, so that no lapse of time applies an
\* action or moves the cursor: from a paused state only a manual step or the
\* start of a run does (a play request resumes playback, and the steps that
\* follow it are taken while playing).
C16_PausaSinContinuacion ==
  [][/\ (ruta = "/election" /\ handlePause) => timers' = {}
     /\ (ruta = "/clocks" /\ RPause) => rTimers' = {}
     /\ ~isPlaying' => timers' = {}
     /\ ~rIsPlaying' => rTimers' = {}
     /\ (ruta = "/election" /\ ~isPlaying
           /\ (pasoIndex' # pasoIndex \/ hAplicadas' # hAplicadas))
          => (handlePaso \/ handleIniciarEleccion)
     /\ (ruta = "/clocks" /\ ~rIsPlaying
           /\ (rPasoIndex' # rPasoIndex \/ hRAplicadas' # hRAplicadas))
          => (RPaso \/ handleSincronizar)]_vars

\* the clock page paused in the middle of a run: some actions applied, some
\* left, nothing pending
C16_Witness ==
  /\ ruta = "/clocks"
  /\ ~rIsPlaying
  /\ rPasoIndex > 0
  /\ rPasoIndex < Len(rAcciones)
  /\ Len(hRAplicadas) = rPasoIndex
  /\ rTimers = {}

\* the applied offsets of the clock nodes, in the order of the array
OffsetsActuales(ns) == [i \in DOMAIN ns |-> ns[i].offsetActual]

\* a step that applies exactly one action of the election / clock page
AplicaUnaEleccion ==
  pasoIndex' = pasoIndex + 1 /\ Len(hAplicadas') = Len(hAplicadas) + 1
AplicaUnaReloj ==
  rPasoIndex' = rPasoIndex + 1 /\ Len(hRAplicadas') = Len(hRAplicadas) + 1

\* the click that marks the current leader as failed
FallaDelLider ==
  /\ leaderId # None
  /\ leaderId' = None
  /\ ~modoIniciador
  /\ ~nodos[IndexOfId(nodos, leaderId[1])].failed
  /\ ClickNodo(leaderId[1])

\* C17: without regeneration or reset, the leader id and the applied offset
\* of every clock node change only in a step that applies exactly one action.
C17_SoloAlAplicar ==
  [][/\ (ruta = "/election" /\ leaderId' # leaderId) => AplicaUnaEleccion
     /\ (ruta = "/clocks" /\ OffsetsActuales(rNodos') # OffsetsActuales(rNodos))
          => AplicaUnaReloj]_vars

\* C17, as the code has it: without regeneration or reset, the applied offset
\* of every clock node changes only in a step that applies exactly one
\* action, and the leader id changes only in such a step or when the node
\* that is the current leader is marked as failed, which clears it.
C17_AplicarOFallaDelLider ==
  [][/\ (ruta = "/election" /\ leaderId' # leaderId)
          => (AplicaUnaEleccion \/ FallaDelLider)
     /\ (ruta = "/clocks" /\ OffsetsActuales(rNodos') # OffsetsActuales(rNodos))
          => AplicaUnaReloj]_vars

\* a run was played to its end and installed a leader, the leader was then
\* marked as failed and the leadership is gone
C17_Witness ==
  /\ ruta = "/election"
  /\ acciones # <<>>
  /\ pasoIndex = Len(acciones)
  /\ hAplicadas # <<>>
  /\ hAplicadas[Len(hAplicadas)].leaderId # None
  /\ nodos[IndexOfId(nodos, hAplicadas[Len(hAplicadas)].leaderId[1])].failed
  /\ leaderId = None

\* ------------------------------------------------------------------------
\* Specification of the generators: the count is drawn from the accepted
\* range within the model's bounds, and the generator is applied once
\* ------------------------------------------------------------------------
InitGenerar ==
  /\ ruta \in {"/election", "/clocks"}
  /\ numNodos \in MinNodos..MaxNodos
  /\ algoritmoActivo = "bully"
  /\ nodos = <<>>
  /\ leaderId = None
  /\ modoIniciador = FALSE
  /\ nodoIniciador = None
  /\ acciones = <<>>
  /\ pasoIndex = 0
  /\ isPlaying = FALSE
  /\ mensajeActual = None
  /\ speed = <<1, 1>>
  /\ logs = 0
  /\ avanzarPasoAcciones = <<>>
  /\ timers = {}
  /\ hAplicadas = <<>>
  /\ hCorrida = SinCorrida
  /\ rNumNodos \in MinRelojes..MaxRelojes
  /\ rAlgoritmoActivo \in ClockAlgorithms
  /\ latenciaMax = IniLatencia
  /\ rNodos = <<>>
  /\ rAcciones = <<>>
  /\ rPasoIndex = 0
  /\ rIsPlaying = FALSE
  /\ rMensajeActual = None
  /\ rSpeed = <<1, 1>>
  /\ rLogs = 0
  /\ rTimers = {}
  /\ hRAplicadas = <<>>
  /\ hRCorridas = 0
  /\ rHastaTick = TickMs

GenerarNodos ==
  /\ ruta = "/election"
  /\ nodos = <<>>
  /\ nodos' \in generarNodos(numNodos)
  /\ UNCHANGED <<ruta, rVars, numNodos, algoritmoActivo, leaderId, modoIniciador,
                 nodoIniciador, acciones, pasoIndex, isPlaying, mensajeActual,
                 speed, logs, avanzarPasoAcciones, timers, hAplicadas, hCorrida>>

GenerarRelojes ==
  /\ ruta = "/clocks"
  /\ rNodos = <<>>
  /\ rNodos' \in generarRelojes(rNumNodos, rAlgoritmoActivo, Ahora)
  /\ UNCHANGED <<ruta, eVars, rNumNodos, rAlgoritmoActivo, latenciaMax, rAcciones,
                 rPasoIndex, rIsPlaying, rMensajeActual, rSpeed, rLogs, rTimers,
                 hRAplicadas, hRCorridas, rHastaTick>>

NextGenerar == GenerarNodos \/ GenerarRelojes

SpecGenerar == InitGenerar /\ [][NextGenerar]_vars

\* C18: generarNodos(c) returns exactly c nodes with pairwise distinct integer
\* ids within 10..99, all alive; generarRelojes(c) returns c + 1 nodes whose
\* ids are 0..c in order, node 0 with base offset 0 and every node with
\* applied offset 0.
C18_Generadores ==
  /\ nodos # <<>> =>
       /\ Len(nodos) = numNodos
       /\ \A i, j \in DOMAIN nodos : i # j => nodos[i].id # nodos[j].id
       /\ \A i \in DOMAIN nodos : /\ nodos[i].id \in MinId..LimId
                                  /\ ~nodos[i].failed
  /\ rNodos # <<>> =>
       /\ Len(rNodos) = rNumNodos + 1
       /\ \A i \in DOMAIN rNodos : /\ rNodos[i].id = i - 1
                                   /\ rNodos[i].offsetActual = 0
                                   /\ ~rNodos[i].failed
       /\ rNodos[1].offsetInicial = 0

\* the generator of the election page has returned an array for the largest
\* count of the model
C18_Witness ==
  /\ ruta = "/election"
  /\ numNodos = MaxNodos
  /\ Len(nodos) = MaxNodos
  /\ nodos[1].id > nodos[2].id

\* C19: a generate request whose count is outside the bounds (3..15 on the
\* election page, 2..12 on the clock page) changes only the count field,
\* which is reset to its default (5, 4): the nodes, the sequence, the cursor,
\* the leader, the applied offsets, the play flag, the message in flight and
\* the pending continuation stay as they were.
C19_CantidadRechazada ==
  [][/\ (ruta = "/election" /\ ~NumNodosValido /\ handleGenerarNodos)
          => /\ numNodos' = DefNodos
             /\ UNCHANGED <<nodos, acciones, pasoIndex, leaderId, isPlaying,
                            mensajeActual, timers, nodoIniciador, algoritmoActivo,
                            logs>>
     /\ (ruta = "/clocks" /\ ~NumRelojesValido /\ handleGenerarRelojes)
          => /\ rNumNodos' = DefRelojes
             /\ UNCHANGED <<rNodos, rAcciones, rPasoIndex, rIsPlaying,
                            rMensajeActual, rTimers, latenciaMax,
                            rAlgoritmoActivo, rLogs>>]_vars

\* on the election page a request was rejected in the middle of automatic
\* playback: the count field holds the default, which only a rejection puts
\* there once nodes exist, and the run is still there
C19_Witness ==
  /\ ruta = "/election"
  /\ numNodos = DefNodos
  /\ nodos # <<>>
  /\ isPlaying
  /\ pasoIndex > 0
  /\ pasoIndex < Len(acciones)
  /\ timers # {}

\* C20: on the clock page a sequence is compiled only while the latency
\* bound is within 10..1000; a synchronize request made with a latency bound
\* outside that range writes one log line, compiles nothing and changes
\* nothing else.
C20_LatenciaRechazada ==
  [][/\ (ruta = "/clocks" /\ rAcciones' # rAcciones /\ rAcciones' # <<>>)
          => LatenciaValida
     /\ (ruta = "/clocks" /\ ~LatenciaValida /\ handleSincronizar)
          => /\ rLogs < MaxLogs => rLogs' = rLogs + 1
             /\ UNCHANGED <<rNodos, rAcciones, rPasoIndex, rIsPlaying,
                            rMensajeActual, rTimers, latenciaMax>>]_vars

\* ------------------------------------------------------------------------
\* Specification of repeated Berkeley runs: the clocks are generated, and
\* runs are compiled and played one after the other while the clocks tick
\* ------------------------------------------------------------------------
InitResincronizar ==
  /\ InitPlayReloj
  /\ rAlgoritmoActivo = "berkeley"

NextResincronizar ==
  /\ ruta = "/clocks"
  /\ \/ handleSincronizarHasta(MaxCorridasSeguidas)
     \/ RPaso
     \/ RTimerPlay
     \/ Tick

SpecResincronizar == InitResincronizar /\ [][NextResincronizar]_vars

\* the compiled run has been applied up to its terminal action
RCorridaCompleta ==
  /\ RCompilado
  /\ rPasoIndex = Len(rAcciones)
  /\ hRAplicadas = rAcciones

\* C21: once the terminal action of a Berkeley run has been applied, all
\* alive nodes show the same time horaLocal + offsetActual, whatever applied
\* offsets they had when the run was compiled (the common value being the
\* computed average plus the ticks elapsed).
C21_BerkeleySincronizado ==
  (ruta = "/clocks" /\ rAlgoritmoActivo = "berkeley" /\ RCorridaCompleta) =>
    \A i, j \in DOMAIN rNodos :
      (~rNodos[i].failed /\ ~rNodos[j].failed)
        => HoraActual(rNodos[i]) = HoraActual(rNodos[j])

\* C22: a Cristian run does not adjust the server: through the playback of
\* a Cristian sequence compiled on freshly generated clocks, the applied
\* offset of node 0 stays at 0.
C22_ServidorSinAjuste ==
  (ruta = "/clocks" /\ rAlgoritmoActivo = "cristian" /\ Len(rNodos) > 0) =>
    (rNodos[1].id = 0 /\ rNodos[1].offsetActual = 0)

\* C23: once the cursor equals the length of the sequence, no step, by the
\* timer or by the Paso button, applies an action or moves the cursor; the
\* cursor returns to 0 only when a sequence is compiled or the nodes are
\* regenerated.
C23_FinSinReinicio ==
  [][/\ (ruta = "/election" /\ pasoIndex = Len(acciones))
          => \/ /\ pasoIndex' = pasoIndex
                /\ hAplicadas' = hAplicadas
                /\ acciones' = acciones
             \/ /\ pasoIndex' = 0
                /\ handleIniciarEleccion \/ (NumNodosValido /\ handleGenerarNodos)
     /\ (ruta = "/clocks" /\ rPasoIndex = Len(rAcciones))
          => \/ /\ rPasoIndex' = rPasoIndex
                /\ hRAplicadas' = hRAplicadas
                /\ rAcciones' = rAcciones
             \/ /\ rPasoIndex' = 0
                /\ handleSincronizar
                     \/ (NumRelojesValido /\ LatenciaValida /\ handleGenerarRelojes)]_vars

\* the election page at the end of a run, after the Paso button was pressed
\* there: the whole sequence was applied and playback is off
C23_Witness ==
  /\ ruta = "/election"
  /\ acciones # <<>>
  /\ pasoIndex = Len(acciones)
  /\ Len(hAplicadas) = Len(acciones)
  /\ ~isPlaying
  /\ timers = {}

\* ------------------------------------------------------------------------
\* Specification of automatic playback on the election page: nodes were
\* generated, an algorithm, a speed and an initiator were chosen; the
\* election is started and from then on only the timer acts.  A timeout that
\* stays pending is eventually delivered by the event loop.
\* ------------------------------------------------------------------------
InitAutoEleccion ==
  /\ ruta = "/election"
  /\ numNodos = MaxNodos
  /\ algoritmoActivo \in Algorithms
  /\ \E ns \in generarNodos(numNodos) :
       \E i \in DOMAIN ns :
         /\ nodoIniciador = Some(ns[i].id)
         /\ nodos = Resaltar(ns, <<ns[i].id>>)
  /\ leaderId = None
  /\ modoIniciador = FALSE
  /\ acciones = <<>>
  /\ pasoIndex = 0
  /\ isPlaying = FALSE
  /\ mensajeActual = None
  /\ speed \in Speeds
  /\ logs = MaxLogs
  /\ avanzarPasoAcciones = <<>>
  /\ timers = {}
  /\ hAplicadas = <<>>
  /\ hCorrida = SinCorrida
  /\ InitReloj

ArrancarEleccion == acciones = <<>> /\ handleIniciarEleccion

NextAutoEleccion == ruta = "/election" /\ (ArrancarEleccion \/ TimerPlay)

TemporizadorJusto == WF_vars(TimerPlay)

SpecAutoEleccion == InitAutoEleccion /\ [][NextAutoEleccion]_vars /\ TemporizadorJusto

Fases == {(k * TickMs) \div MaxFases : k \in 1..MaxFases}

InitAutoReloj ==
  /\ ruta = "/clocks"
  /\ InitEleccion
  /\ rNumNodos = MinRelojes
  /\ rAlgoritmoActivo \in ClockAlgorithms
  /\ latenciaMax = IniLatencia
  /\ rNodos \in generarRelojes(rNumNodos, rAlgoritmoActivo, Ahora)
  /\ rAcciones = <<>>
  /\ rPasoIndex = 0
  /\ rIsPlaying = FALSE
  /\ rMensajeActual = None
  /\ rSpeed \in Speeds
  /\ rLogs = MaxLogs
  /\ rTimers = {}
  /\ hRAplicadas = <<>>
  /\ hRCorridas = 0
  /\ rHastaTick \in Fases

ArrancarReloj == rAcciones = <<>> /\ handleSincronizar

TimerATiempo ==
  \E t \in rTimers :
    /\ t.delay <= rHastaTick
    /\ RAvanzarPaso
    /\ UNCHANGED <<rNumNodos, rAlgoritmoActivo, latenciaMax, rAcciones, rSpeed, hRCorridas>>
    /\ RRender(rTimers \ {t}, rPasoIndex < Len(rAcciones))
    /\ rHastaTick' = rHastaTick - t.delay

TickATiempo ==
  /\ Len(rNodos) > 0
  /\ \A t \in rTimers : rHastaTick <= t.delay
  /\ rNodos' = [i \in DOMAIN rNodos |->
                  [rNodos[i] EXCEPT !.horaLocal =
                     IF rNodos[1].horaLocal < Ahora + MaxTicks * TickMs
                     THEN @ + TickMs ELSE @]]
  /\ UNCHANGED <<rNumNodos, rAlgoritmoActivo, latenciaMax, rAcciones, rPasoIndex,
                 rIsPlaying, rMensajeActual, rSpeed, rLogs, hRAplicadas, hRCorridas>>
  /\ RRender(rTimers, TRUE)
  /\ rHastaTick' = TickMs

NextAutoReloj == ruta = "/clocks" /\ (ArrancarReloj \/ TimerATiempo \/ TickATiempo)

TiempoJusto == WF_vars(TimerATiempo) /\ WF_vars(TickATiempo)

SpecAutoReloj == InitAutoReloj /\ [][NextAutoReloj]_vars /\ TiempoJusto

\* the longest sequence of the specification: Cristian on MinRelojes clients
LargoMaximo == 3 * (MinRelojes + 1) + 2

\* C25: on the clock page, while playing with the cursor before the end and
\* no user input, the next action is eventually applied, at every speed,
\* with the clocks ticking every 1000 ms.
C25_RelojAvanza ==
  \A i \in 0..LargoMaximo :
    (rIsPlaying /\ rPasoIndex = i /\ i < Len(rAcciones)) ~> (rPasoIndex > i)

\* the ids of the highlighted nodes, and the ids an applied action highlights
Resaltados(ns) == {ns[i].id : i \in {j \in DOMAIN ns : ns[j].highlighted}}
IdsAResaltar(ns, acc) ==
  IF acc.highlightIds = None THEN {}
  ELSE Range(acc.highlightIds[1]) \cap Range(Ids(ns))

\* C26: after a step has applied one action, the highlighted nodes are
\* exactly the nodes whose id is in the highlightIds of the action applied
\* (none when it has no highlightIds) and the message in flight is exactly
\* the message of the action applied (none when it has no message).
C26_AplicarResalta ==
  [][/\ (ruta = "/election" /\ AplicaUnaEleccion)
          => LET acc == hAplicadas'[Len(hAplicadas')] IN
             /\ Resaltados(nodos') = IdsAResaltar(nodos', acc)
             /\ mensajeActual' = acc.mensaje
     /\ (ruta = "/clocks" /\ AplicaUnaReloj)
          => LET acc == hRAplicadas'[Len(hRAplicadas')] IN
             /\ Resaltados(rNodos') = IdsAResaltar(rNodos', acc)
             /\ rMensajeActual' = acc.mensaje]_vars

\* on the election page an action without message that highlights fewer
\* nodes was applied right after one that carried a message
C26_Witness ==
  /\ ruta = "/election"
  /\ Len(hAplicadas) >= 2
  /\ pasoIndex = Len(hAplicadas)
  /\ hAplicadas[Len(hAplicadas) - 1].mensaje # None
  /\ hAplicadas[Len(hAplicadas)].mensaje = None
  /\ IdsAResaltar(nodos, hAplicadas[Len(hAplicadas) - 1])
       # IdsAResaltar(nodos, hAplicadas[Len(hAplicadas)])
  /\ mensajeActual = None
  /\ Resaltados(nodos) = IdsAResaltar(nodos, hAplicadas[Len(hAplicadas)])

\* C27: a step of the clock page that applies one action stores, for every
\* node, the entry of the action's ajustes for its id as applied offset and
\* the entry of its rttValues as RTT when there is one, and leaves them as
\* they were otherwise (so an action with neither changes none); the base
\* offset and the local time of every node are left as they were.
C27_AplicarAjusta ==
  [][(ruta = "/clocks" /\ AplicaUnaReloj)
       => LET acc == hRAplicadas'[Len(hRAplicadas')] IN
          /\ DOMAIN rNodos' = DOMAIN rNodos
          /\ \A i \in DOMAIN rNodos :
               LET id == rNodos[i].id IN
               /\ rNodos'[i].id = id
               /\ rNodos'[i].offsetActual =
                    IF acc.ajustes # None /\ id \in DOMAIN acc.ajustes[1]
                    THEN acc.ajustes[1][id] ELSE rNodos[i].offsetActual
               /\ rNodos'[i].rtt =
                    IF acc.rttValues # None /\ id \in DOMAIN acc.rttValues[1]
                    THEN Some(acc.rttValues[1][id]) ELSE rNodos[i].rtt
               /\ rNodos'[i].offsetInicial = rNodos[i].offsetInicial
               /\ rNodos'[i].horaLocal = rNodos[i].horaLocal]_vars

\* a Cristian run in which the adjustment of node 1 was applied: node 1 has
\* its entries, node 0 keeps the non-zero offset applied before and node 2
\* has no RTT yet
C27_Witness ==
  /\ ruta = "/clocks"
  /\ hRAplicadas # <<>>
  /\ rPasoIndex = Len(hRAplicadas)
  /\ LET acc == hRAplicadas[Len(hRAplicadas)] IN
     /\ acc.ajustes # None
     /\ DOMAIN acc.ajustes[1] = {1}
     /\ acc.ajustes[1][1] # 0
     /\ rNodos[2].offsetActual = acc.ajustes[1][1]
     /\ rNodos[2].rtt = Some(acc.rttValues[1][1])
  /\ rNodos[1].offsetActual # 0
  /\ rNodos[3].rtt = None

\* ------------------------------------------------------------------------
\* Runs on inputs the compilers reject
\* ------------------------------------------------------------------------
\* ns with the failure flags f
ConFallas(ns, f) == [i \in DOMAIN ns |-> [ns[i] EXCEPT !.failed = f[i]]]

\* the election page with an initiator selected and any nodes failed since
\* (a failed click also removes the node's highlight), a leader of an earlier
\* run or none; the clock page's compilers on clocks with any failure flags
InitRechazo ==
  \/ /\ ruta = "/election"
     /\ numNodos = MaxNodos
     /\ algoritmoActivo \in Algorithms
     /\ \E ns \in generarNodos(numNodos) :
          \E f \in [DOMAIN ns -> BOOLEAN] :
            \E i \in DOMAIN ns :
              /\ nodoIniciador = Some(ns[i].id)
              /\ nodos = ConFallas(Resaltar(ns, IF f[i] THEN <<>> ELSE <<ns[i].id>>), f)
              /\ leaderId \in {None} \cup {Some(ns[k].id) : k \in {j \in DOMAIN ns : ~f[j]}}
     /\ modoIniciador = FALSE
     /\ acciones = <<>>
     /\ pasoIndex = 0
     /\ isPlaying = FALSE
     /\ mensajeActual = None
     /\ speed = <<1, 1>>
     /\ logs = MaxLogs
     /\ avanzarPasoAcciones = <<>>
     /\ timers = {}
     /\ hAplicadas = <<>>
     /\ hCorrida = SinCorrida
     /\ InitReloj
  \/ /\ ruta = "/clocks"
     /\ InitEleccion
     /\ rNumNodos = MinRelojes
     /\ rAlgoritmoActivo \in ClockAlgorithms
     /\ latenciaMax = IniLatencia
     /\ \E ns \in generarRelojes(rNumNodos, rAlgoritmoActivo, Ahora) :
          \E aj \in [DOMAIN ns -> OffsetsAplicados] :
            \E f \in [DOMAIN ns -> BOOLEAN] :
              rNodos = ConFallas(ConAjustes(ns, aj), f)
     /\ rAcciones = <<>>
     /\ rPasoIndex = 0
     /\ rIsPlaying = FALSE
     /\ rMensajeActual = None
     /\ rSpeed = <<1, 1>>
     /\ rLogs = MaxLogs
     /\ rTimers = {}
     /\ hRAplicadas = <<>>
     /\ hRCorridas = 0
     /\ rHastaTick = TickMs

NextRechazo ==
  \/ /\ ruta = "/election"
     /\ \/ ArrancarEleccion
        \/ TimerPlay
        \/ handlePaso
  \/ /\ ruta = "/clocks"
     /\ \/ ArrancarReloj
        \/ RTimerPlay
        \/ RPaso

SpecRechazo == InitRechazo /\ [][NextRechazo]_vars

\* the sequence compiled from an input the compiler rejects
RechazoEleccion == ruta = "/election" /\ Compilado /\ ~IniciadorVivo
RechazoReloj == ruta = "/clocks" /\ RCompilado /\ Vivos(rNodos) = <<>>

\* C28: simularBully and simularRingCompleto with an initiator that is not
\* alive (simularRingCompleto also with no alive node), simularCristian and
\* simularBerkeley with no alive node, return exactly one action, which has
\* no message, no leaderId, no adjustments, no RTT values and no
\* highlightIds; the step that plays it changes neither the leader nor any
\* applied offset.
C28_RechazoSinEfecto ==
  /\ [](RechazoEleccion =>
          /\ Len(acciones) = 1
          /\ acciones[1].mensaje = None
          /\ acciones[1].leaderId = None
          /\ acciones[1].highlightIds = None)
  /\ [](RechazoReloj =>
          /\ Len(rAcciones) = 1
          /\ rAcciones[1].mensaje = None
          /\ rAcciones[1].ajustes = None
          /\ rAcciones[1].rttValues = None
          /\ rAcciones[1].highlightIds = None)
  /\ [][(RechazoEleccion /\ AplicaUnaEleccion) => leaderId' = leaderId]_vars
  /\ [][(RechazoReloj /\ AplicaUnaReloj) =>
          OffsetsActuales(rNodos') = OffsetsActuales(rNodos)]_vars

\* a Bully run whose initiator failed while another node is the leader: the
\* single action was played and the leader is still there
C28_Witness ==
  /\ RechazoEleccion
  /\ algoritmoActivo = "bully"
  /\ VivosIds(nodos) # {}
  /\ leaderId # None
  /\ hAplicadas = acciones
  /\ pasoIndex = 1

\* ------------------------------------------------------------------------
\* The election compilers on larger node arrays
\* ------------------------------------------------------------------------
\* a generated array of MaxNodosMensajes nodes after any fail/revive toggles,
\* a selected initiator and an algorithm, nothing compiled yet
InitMensajes ==
  /\ numNodos = MaxNodosMensajes
  /\ algoritmoActivo \in Algorithms
  /\ \E s \in [1..MaxNodosMensajes -> MinId..(MinId + MaxNodosMensajes - 1)] :
       /\ \A i, j \in DOMAIN s : i # j => s[i] # s[j]
       /\ \E f \in [DOMAIN s -> BOOLEAN] :
            nodos = [i \in DOMAIN s |-> NodoSim(s[i], f[i], FALSE)]
  /\ leaderId = None
  /\ modoIniciador = FALSE
  /\ nodoIniciador \in {Some(nodos[i].id) : i \in DOMAIN nodos}
  /\ acciones = <<>>
  /\ pasoIndex = 0
  /\ isPlaying = FALSE
  /\ mensajeActual = None
  /\ speed = <<1, 1>>
  /\ logs = 0
  /\ avanzarPasoAcciones = <<>>
  /\ timers = {}
  /\ hAplicadas = <<>>
  /\ hCorrida = SinCorrida
  /\ ruta = "/election"
  /\ InitReloj

NextMensajes ==
  \/ algoritmoActivo = "bully" /\ CompilarBully
  \/ algoritmoActivo = "ring" /\ CompilarRing

\* simularBully / simularRingCompleto applied to every such input
SpecMensajes == InitMensajes /\ [][NextMensajes]_vars

\* the ids of the alive nodes above the initiator, in node-list order
IdsSuperiores ==
  Ids(SelectSeq(nodos, LAMBDA n : ~n.failed /\ n.id > nodoIniciador[1]))

IdsVivos == Ids(SelectSeq(nodos, LAMBDA n : ~n.failed))

\* the ring: IdsVivos rotated to start at the initiator
IdsAnillo ==
  LET n == Len(IdsVivos)
      p == CHOOSE i \in 1..n : IdsVivos[i] = nodoIniciador[1]
  IN [i \in 1..n |-> IdsVivos[((p - 1 + i - 1) % n) + 1]]

\* C30: simularRingCompleto with an alive initiator and n alive nodes
\* compiles exactly n ring1 (RING_COLLECT) messages, one after the other
\* right after the opening action; they form one closed chain over the
\* alive nodes in node-list order rotated to start at the initiator (the
\* i-th goes from the i-th ring node to the next one, the last one back to
\* the initiator), and the payload of the i-th message is the list of the
\* first i ring ids, without duplicates.
C30_RingFase1 ==
  (algoritmoActivo = "ring" /\ Compilado /\ IniciadorVivo) =>
     LET anillo == IdsAnillo
         n == Len(anillo)
     IN /\ ConMensaje(acciones, "ring1") = 2..(n + 1)
        /\ \A i \in 1..n :
             LET m == acciones[i + 1].mensaje[1] IN
             /\ m.fromId = anillo[i]
             /\ m.toId = anillo[(i % n) + 1]
             /\ m.payload = Some(SubSeq(anillo, 1, i))
             /\ \A a, b \in 1..i : a # b => m.payload[1][a] # m.payload[1][b]
        /\ acciones[2].mensaje[1].fromId = nodoIniciador[1]
        /\ acciones[n + 1].mensaje[1].toId = nodoIniciador[1]

\* a compiled ring of four alive nodes around a failed one, whose initiator
\* is neither the first node of the list nor the first alive one, and whose
\* list is not in id order
C30_Witness ==
  /\ algoritmoActivo = "ring"
  /\ Compilado
  /\ IniciadorVivo
  /\ Len(IdsVivos) = 4
  /\ nodos[3].failed
  /\ IdsVivos[3] = nodoIniciador[1]
  /\ IdsVivos[1] > IdsVivos[2]
  /\ Cardinality(ConMensaje(acciones, "ring1")) = 4
  /\ acciones[5].mensaje[1].payload = Some(IdsAnillo)

RIdsVivos == Ids(SelectSeq(rNodos, LAMBDA n : ~n.failed))

CristianCompilado ==
  ruta = "/clocks" /\ rAlgoritmoActivo = "cristian" /\ RCompilado /\ Len(RIdsVivos) > 0

\* the three actions of the alive node id start right after position p
TrioCristian(p, id) ==
  /\ rAcciones[p + 1].mensaje = Some(ClockMessage(id, 0, "request"))
  /\ rAcciones[p + 1].ajustes = None
  /\ rAcciones[p + 1].rttValues = None
  /\ rAcciones[p + 2].mensaje = Some(ClockMessage(0, id, "response"))
  /\ rAcciones[p + 2].ajustes = None
  /\ rAcciones[p + 2].rttValues = None
  /\ rAcciones[p + 3].mensaje = None
  /\ rAcciones[p + 3].ajustes # None
  /\ DOMAIN rAcciones[p + 3].ajustes[1] = {id}
  /\ rAcciones[p + 3].rttValues # None
  /\ DOMAIN rAcciones[p + 3].rttValues[1] = {id}

\* C32 as stated: the Cristian sequence for n alive nodes consists of the
\* REQUEST, RESPONSE and adjustment actions of each alive node in node
\* order (server included) and one closing action without message and
\* adjustments: 3n + 1 actions.
C32_CristianSoloTrios ==
  CristianCompilado =>
     LET n == Len(RIdsVivos) IN
     /\ Len(rAcciones) = 3 * n + 1
     /\ \A j \in 1..n : TrioCristian(3 * (j - 1), RIdsVivos[j])
     /\ rAcciones[3 * n + 1].mensaje = None
     /\ rAcciones[3 * n + 1].ajustes = None

\* C32 amended: the Cristian sequence for n alive nodes has 3n + 2 actions:
\* one opening action without message, adjustments, RTT values and
\* highlightIds, then per alive node in node order (server included) a
\* REQUEST message from that node to node 0, a RESPONSE message from node 0
\* to that node and an adjustment action whose adjustments and rttValues
\* each have exactly that node's id as their only key, and one closing
\* action without message and adjustments.
C32_CristianEstructura ==
  CristianCompilado =>
     LET n == Len(RIdsVivos) IN
     /\ Len(rAcciones) = 3 * n + 2
     /\ rAcciones[1] = ClockAction(rAcciones[1].descripcion, None, None, None, None)
     /\ \A j \in 1..n : TrioCristian(3 * (j - 1) + 1, RIdsVivos[j])
     /\ rAcciones[3 * n + 2].mensaje = None
     /\ rAcciones[3 * n + 2].ajustes = None
     /\ rAcciones[3 * n + 2].rttValues = None

\* a compiled Cristian run over the server and one client, around a failed
\* client
C32_Witness ==
  /\ CristianCompilado
  /\ rNodos[2].failed
  /\ RIdsVivos = <<0, 2>>
  /\ Len(rAcciones) = 8
  /\ rAcciones[2].mensaje = Some(ClockMessage(0, 0, "request"))
  /\ rAcciones[7].ajustes # None
  /\ DOMAIN rAcciones[7].ajustes[1] = {2}

BerkeleyCompilado ==
  ruta = "/clocks" /\ rAlgoritmoActivo = "berkeley" /\ RCompilado /\ Len(RIdsVivos) > 0

\* the positions of the actions of rAcciones that carry a message of a type
RConMensaje(tipo) ==
  {i \in DOMAIN rAcciones :
     rAcciones[i].mensaje # None /\ rAcciones[i].mensaje[1].tipo = tipo}

\* C33: simularBerkeley for n alive nodes, the first alive node being the
\* coordinator: exactly n - 1 POLL messages, from the coordinator to each
\* other alive node in node order, each immediately followed by the
\* RESPONSE of that node to the coordinator, none addressed to the
\* coordinator; exactly n OFFSET messages from the coordinator, one per
\* alive node in node order, the coordinator included, all after every POLL
\* and RESPONSE.
C33_BerkeleyMensajes ==
  BerkeleyCompilado =>
     LET n == Len(RIdsVivos)
         coord == RIdsVivos[1]
         otros == Tail(RIdsVivos)
     IN /\ RConMensaje("berkeley-poll") = {2 * j : j \in 1..(n - 1)}
        /\ RConMensaje("response") = {2 * j + 1 : j \in 1..(n - 1)}
        /\ \A j \in 1..(n - 1) :
             /\ rAcciones[2 * j].mensaje = Some(ClockMessage(coord, otros[j], "berkeley-poll"))
             /\ rAcciones[2 * j + 1].mensaje = Some(ClockMessage(otros[j], coord, "response"))
             /\ otros[j] # coord
        /\ RConMensaje("berkeley-offset") = {2 * n + 1 + j : j \in 1..n}
        /\ \A j \in 1..n :
             rAcciones[2 * n + 1 + j].mensaje =
               Some(ClockMessage(coord, RIdsVivos[j], "berkeley-offset"))
        /\ \A i \in RConMensaje("berkeley-offset") :
             \A p \in RConMensaje("berkeley-poll") \cup RConMensaje("response") : p < i

\* a compiled Berkeley run over three alive clocks: two POLL/RESPONSE pairs
\* and three OFFSET messages, the first one to the coordinator itself
C33_Witness ==
  /\ BerkeleyCompilado
  /\ RIdsVivos = <<0, 1, 2>>
  /\ Cardinality(RConMensaje("berkeley-poll")) = 2
  /\ Cardinality(RConMensaje("berkeley-offset")) = 3
  /\ rAcciones[5].mensaje = Some(ClockMessage(2, 0, "response"))
  /\ rAcciones[8].mensaje = Some(ClockMessage(0, 0, "berkeley-offset"))

\* the alive clocks, and the current time of each by id
RVivos == SelectSeq(rNodos, LAMBDA n : ~n.failed)
HorasVivos == [id \in Range(RIdsVivos) |->
                 LET nodo == RVivos[CHOOSE i \in DOMAIN RVivos : RVivos[i].id = id]
                 IN nodo.horaLocal + nodo.offsetActual]

\* C34: in the sequence simularBerkeley compiles, until its last action is
\* played (the clocks are those it was compiled from): the last action is
\* the only one carrying adjustments; the keys of its adjustments are
\* exactly the alive node ids and each value is the average (the rounded
\* mean of the alive nodes' current times) minus that node's
\* logicalTime + appliedOffset; its highlightIds are exactly the alive node
\* ids, and no action carries RTT values.
C34_BerkeleyTerminal ==
  (BerkeleyCompilado /\ rPasoIndex < Len(rAcciones)) =>
     LET ult == Len(rAcciones)
         promedio == MathRound(Suma(HorasVivos), Len(RIdsVivos))
     IN /\ \A i \in 1..ult : (rAcciones[i].ajustes # None) <=> (i = ult)
        /\ \A i \in 1..ult : rAcciones[i].rttValues = None
        /\ DOMAIN rAcciones[ult].ajustes[1] = Range(RIdsVivos)
        /\ \A id \in Range(RIdsVivos) :
             rAcciones[ult].ajustes[1][id] = promedio - HorasVivos[id]
        /\ rAcciones[ult].highlightIds = Some(RIdsVivos)
        /\ rAcciones[ult].mensaje = None

\* a Berkeley run compiled around a failed clock, on clocks that carry
\* applied offsets of an earlier run, with a non-zero adjustment, played up
\* to its last action
C34_Witness ==
  /\ BerkeleyCompilado
  /\ rPasoIndex = Len(rAcciones) - 1
  /\ RIdsVivos = <<0, 2>>
  /\ rNodos[1].offsetActual # 0
  /\ rNodos[3].offsetActual # 0
  /\ rAcciones[Len(rAcciones)].ajustes # None
  /\ rAcciones[Len(rAcciones)].ajustes[1][2] # 0
  /\ rAcciones[Len(rAcciones)].ajustes[1][0] # rAcciones[Len(rAcciones)].ajustes[1][2]

\* the timeout the auto-play effect arms in the state after a step, if any
TimerDebido ==
  IF isPlaying' /\ pasoIndex' < Len(acciones') THEN {[delay |-> Delay(speed')]} ELSE {}
RTimerDebido ==
  IF rIsPlaying' /\ rPasoIndex' < Len(rAcciones') THEN {[delay |-> RDelay(rSpeed')]} ELSE {}

\* C35: on both pages at most one timeout of the auto-play effect is pending
\* at any time; a step that changes the play state, the cursor, the length
\* of the sequence or the speed leaves no earlier timeout pending: after it
\* only the timeout armed for the new state is pending, or none; and a
\* timeout that expires without moving the cursor leaves none pending, so
\* two timeouts never fire for the same cursor value.
C35_UnSoloTemporizador ==
  /\ [](Cardinality(timers) <= 1 /\ Cardinality(rTimers) <= 1)
  /\ [][(DepsPlay(isPlaying, pasoIndex, acciones, speed)
           # DepsPlay(isPlaying', pasoIndex', acciones', speed'))
        => timers' = TimerDebido]_vars
  /\ [][(RDepsPlay(rIsPlaying, rPasoIndex, rAcciones, rSpeed)
           # RDepsPlay(rIsPlaying', rPasoIndex', rAcciones', rSpeed'))
        => rTimers' = RTimerDebido]_vars
  /\ [][(ruta = "/election" /\ timers # {} /\ pasoIndex' = pasoIndex /\ TimerPlay)
        => timers' = {}]_vars
  /\ [][(ruta = "/clocks" /\ rTimers # {} /\ rPasoIndex' = rPasoIndex /\ RTimerPlay)
        => rTimers' = {}]_vars

\* an election run in mid-playback whose speed was changed to 2x: only the
\* timeout of 450 ms is pending
C35_Witness ==
  /\ ruta = "/election"
  /\ isPlaying
  /\ pasoIndex > 0
  /\ pasoIndex < Len(acciones)
  /\ speed = <<2, 1>>
  /\ timers = {[delay |-> BaseMs \div 2]}

\* C36: on the election page, in every reachable state the leader is none
\* or the id of a node that is alive.
C36_LiderVivo ==
  ruta = "/election" => (leaderId = None \/ leaderId[1] \in VivosIds(nodos))

\* the leaderId of the last action of a sequence
LiderFinal(accs) == accs[Len(accs)].leaderId

\* C37: for every node array and every alive initiator, the sequence
\* compiled by the selected compiler and the sequence the other compiler
\* returns for the same input end with the same leaderId, which is not
\* none.
C37_MismoLider ==
  (Compilado /\ IniciadorVivo) =>
     /\ LiderFinal(acciones) # None
     /\ LiderFinal(acciones) =
          LiderFinal(IF algoritmoActivo = "bully"
                     THEN simularRingCompleto(nodos, nodoIniciador[1])
                     ELSE simularBully(nodos, nodoIniciador[1]))
     /\ LiderFinal(simularBully(nodos, nodoIniciador[1]))
          = LiderFinal(simularRingCompleto(nodos, nodoIniciador[1]))

\* a compiled Ring run whose leader is neither the initiator nor the
\* highest id of the array (that node is failed), nor the last node of the
\* ring
C37_Witness ==
  /\ algoritmoActivo = "ring"
  /\ Compilado
  /\ IniciadorVivo
  /\ \E i \in DOMAIN nodos : nodos[i].failed /\ nodos[i].id > MaxVivo(nodos)
  /\ LiderFinal(acciones) = Some(MaxVivo(nodos))
  /\ MaxVivo(nodos) # nodoIniciador[1]
  /\ Len(IdsVivos) >= 3
  /\ IdsAnillo[Len(IdsAnillo)] # MaxVivo(nodos)
  /\ LiderFinal(simularBully(nodos, nodoIniciador[1])) = Some(MaxVivo(nodos))

\* ------------------------------------------------------------------------
\* The control panels with the reset button of the election page
\* ------------------------------------------------------------------------
NextCursor == NextPanel \/ (ruta = "/election" /\ Reiniciar)

SpecCursor == InitPanel /\ [][NextCursor]_vars

RelojesCon(cantidad, off, now) ==
  [i \in 1..(cantidad + 1) |->
     IF i = 1 THEN ClockNode(0, now, 0, "server")
     ELSE ClockNode(i - 1, now + off[i - 1], off[i - 1], "client")]

InitRecristian ==
  /\ ruta = "/clocks"
  /\ InitEleccion
  /\ rNumNodos = MinRelojes
  /\ rAlgoritmoActivo = "cristian"
  /\ latenciaMax = IniLatencia
  /\ \E off \in [1..rNumNodos -> {0 - OffsetLejano, OffsetLejano}] :
       rNodos = RelojesCon(rNumNodos, off, Ahora)
  /\ rAcciones = <<>>
  /\ rPasoIndex = 0
  /\ rIsPlaying = FALSE
  /\ rMensajeActual = None
  /\ rSpeed = <<1, 1>>
  /\ rLogs = MaxLogs
  /\ rTimers = {}
  /\ hRAplicadas = <<>>
  /\ hRCorridas = 0
  /\ rHastaTick = TickMs

\* "Sincronizar" pressed on fresh clocks or after the run was played to its
\* end
SincronizarDeNuevo ==
  /\ rAcciones = <<>> \/ (rPasoIndex = Len(rAcciones) /\ hRAplicadas = rAcciones)
  /\ handleSincronizarHasta(MaxCorridasSeguidas)

NextRecristian ==
  /\ ruta = "/clocks"
  /\ \/ SincronizarDeNuevo
     \/ RPaso
     \/ RTimerPlay
     \/ Tick

SpecRecristian == InitRecristian /\ [][NextRecristian]_vars

\* the time of the reference: horaLocal - offsetInicial of node 0
TiempoReal == rNodos[1].horaLocal - rNodos[1].offsetInicial

\* C39: after complete playback of a Cristian run, on freshly generated
\* clocks or on clocks adjusted by an earlier run, the time
\* horaLocal + offsetActual of every node differs from the true time by at
\* most half of the node's round-trip time plus one rounding unit.
C39_CristianPreciso ==
  (ruta = "/clocks" /\ rAlgoritmoActivo = "cristian" /\ RCorridaCompleta) =>
    \A i \in DOMAIN rNodos :
      /\ rNodos[i].rtt # None
      /\ 2 * Abs(HoraActual(rNodos[i]) - TiempoReal) <= rNodos[i].rtt[1] + 2

================================================================================
